---- MODULE Spec2Model ----
(***************************************************************************)
(* FilterTrail: a poller thread (ExcelFilterMonitor.background_monitoring) *)
(* watches the filters and the visible row count of a worksheet, appends   *)
(* filter events to a log that is kept in memory and in filter_data.json,  *)
(* and a GUI thread (FilterTrailApp) reloads, renames and resets the log.  *)
(***************************************************************************)
EXTENDS Integers, Sequences, FiniteSets, TLC

VARIABLES
    clock,               \* wall clock in whole seconds (datetime.now() formatted to the second)
    srcFilters,          \* worksheet: column index -> criteria of its AutoFilter, <<>> when off
    srcRows,             \* worksheet: number of rows really visible
    srcTotal,            \* worksheet: number of non-empty primary key cells
    data_file,           \* filter_data.json
    backup_file,         \* filter_data_backup.json
    filter_history,      \* ExcelFilterMonitor.filter_history
    vis_filter_history,  \* FilterVisualizer.filter_history
    shared,              \* the two lists hold the same event objects (shallow copy)
    header_names,        \* ExcelFilterMonitor.header_names (Header Cache)
    last_known_filters,  \* ExcelFilterMonitor.last_known_filters
    stop_event,          \* ExcelFilterMonitor.stop_event
    pc,                  \* position of the poller thread
    ret,                 \* where the poller continues after save_filter_history
    last_filter_state,   \* local of background_monitoring
    last_row_count,      \* local of background_monitoring
    total_rows,          \* local of background_monitoring
    current_filters,     \* local of background_monitoring
    current_row_count,   \* local of background_monitoring
    visible_rows,        \* local of background_monitoring: the estimates of the tick
    filter_event,        \* local of background_monitoring: the event the tick built
    gui_pc,              \* position of the GUI thread inside a handler
    gui_ret,             \* where the GUI handler continues after a nested call, or the handler it is in
    monitoring_active,   \* FilterTrailApp.monitoring_active
    finished,            \* QThread.finished emitted, monitoring_finished not yet run
    interruption,        \* QThread.requestInterruption() was called
    budget,              \* sessions started and events of the world so far, by kind
    env,                 \* what the world of this run may do (fixed at Init)
    probe                \* inputs and result of the pure function under test

vars == <<clock, srcFilters, srcRows, srcTotal, data_file, backup_file,
          filter_history, vis_filter_history, shared, header_names,
          last_known_filters, stop_event, pc, ret, last_filter_state,
          last_row_count, total_rows, current_filters, current_row_count,
          visible_rows, filter_event, gui_pc, gui_ret, monitoring_active,
          finished, interruption, budget, env, probe>>

-----------------------------------------------------------------------------
(* Bounds of the model *)

\* longest log the poller is allowed to build
MaxLog == 3

\* monitoring sessions the user starts in one run
MaxSessions == 1

\* events of the world in one run of the whole program: an edit of the
\* worksheet, a second that passes, a user operation besides start and stop,
\* a call that fails, a measurement that is off
MaxWorldEvents == 1

\* events of a quiet world in one run: edits of the worksheet and seconds
\* that pass
MaxEdits == 2

\* most estimates handed to the reconciler
MaxEstimates == 3

-----------------------------------------------------------------------------
(* Program constants *)

\* abs(current_row_count - last_row_count) > 2
JitterTolerance == 2

\* max_history_length = 100
max_history_length == 100

\* the worksheet's header row
srcHeaders == <<"Region", "City">>

\* columns of the worksheet (the code caps them at 200)
NumCols == Len(srcHeaders)

\* labels that a single-event rename refuses to touch
ProtectedLabels == {"All Data", "Initial State"}

-----------------------------------------------------------------------------
(* Sequences *)

Range(s) == {s[i] : i \in DOMAIN s}

Abs(n) == IF n < 0 THEN 0 - n ELSE n

MinOf(s) == CHOOSE m \in Range(s) : \A k \in Range(s) : m <= k

MaxOf(s) == CHOOSE m \in Range(s) : \A k \in Range(s) : m >= k

\* list.sort(): insertion of each element into an ascending prefix
RECURSIVE InsertSorted(_, _)
InsertSorted(s, x) ==
    IF s = <<>> THEN <<x>>
    ELSE IF x <= Head(s) THEN <<x>> \o s
    ELSE <<Head(s)>> \o InsertSorted(Tail(s), x)

RECURSIVE SortAsc(_)
SortAsc(s) == IF s = <<>> THEN <<>> ELSE InsertSorted(SortAsc(Tail(s)), Head(s))

IsIn(x, s) == \E i \in DOMAIN s : s[i] = x

-----------------------------------------------------------------------------
(* Row Count Reconciler, main.py 353-385 *)

\* "if rows > 0: estimates.append(rows)" over the three methods gives the estimates
KeepPositive(rows) == SelectSeq(rows, LAMBDA r : r > 0)

\* the middle element of the estimates as they were handed in, unsorted
MiddleOf(estimates) == estimates[(Len(estimates) \div 2) + 1]

\* visible_rows.sort(); visible_rows[len(visible_rows)//2]
MedianOf(estimates) == SortAsc(estimates)[(Len(estimates) \div 2) + 1]

\* min_count < max(visible_rows) * 0.8, exact on the integers: 10*min < 8*max
HighDisagreement(estimates) ==
    /\ Len(estimates) >= 3
    /\ 10 * MinOf(estimates) < 8 * MaxOf(estimates)

\* a reconciler without the disagreement rule
ReconcileMin(estimates) == MinOf(estimates)

\* the branch taken when visible_rows is not empty
Reconcile(estimates) ==
    IF HighDisagreement(estimates)
    THEN MedianOf(estimates)
    ELSE MinOf(estimates)

\* a tick that falls back to the total, as the session start does
TickRowCountTotal(estimates, direct) ==
    IF estimates # <<>> THEN Reconcile(estimates) ELSE srcTotal

\* the row count of a tick: direct is what get_visible_row_count() returns
TickRowCount(estimates, direct) ==
    IF estimates # <<>> THEN Reconcile(estimates) ELSE direct

\* the row count at session start: falls back to total_rows
InitialRowCount(estimates, total) ==
    IF estimates # <<>> THEN Reconcile(estimates) ELSE total

\* abs(current_row_count - last_row_count) > 2
RowCountChanged(current, last) == Abs(current - last) > JitterTolerance

-----------------------------------------------------------------------------
(* Filter maps: a Python dict from column name to filter info, kept as the  *)
(* sequence of its items in insertion order                                 *)

Keys(m) == {m[i].column : i \in DOMAIN m}

Has(m, col) == col \in Keys(m)

Get(m, col) == m[CHOOSE i \in DOMAIN m : m[i].column = col]

\* m[col] = info: an existing key keeps its position
Put(m, info) ==
    IF Has(m, info.column)
    THEN [i \in DOMAIN m |-> IF m[i].column = info.column THEN info ELSE m[i]]
    ELSE Append(m, info)

\* dict == dict: same keys with equal infos, whatever the insertion order
DictEq(a, b) == Range(a) = Range(b)

KeyList(m) == [i \in DOMAIN m |-> m[i].column]

\* last_detected = time.time().  Two reads separated by a sleep never carry
\* the same stamp; the read of the first tick follows the initial read with
\* no sleep in between and may or may not see the clock advance.  Stamps are
\* kept relative: 2 = read now, 1 = read at session start, 0 = read before
\* the last sleep.
StampsNow(last) ==
    IF \E i \in DOMAIN last : last[i].last_detected = 1 THEN {1, 2} ELSE {2}

\* time passing in time.sleep(): every stamp held by the poller becomes old
Aged(m) == [i \in DOMAIN m |-> [m[i] EXCEPT !.last_detected = 0]]

\* get_current_filters, main.py 818-923: the columns whose filter is On, in
\* column order, named from the Header Cache;
\* with two columns of the same name the later index overwrites the value
\* and the key keeps the position of the first
RECURSIVE PutAll(_, _)
PutAll(m, items) ==
    IF items = <<>> THEN m ELSE PutAll(Put(m, Head(items)), Tail(items))

RECURSIVE OnFilters(_, _, _, _)
OnFilters(i, names, src, stamp) ==
    IF i > NumCols THEN <<>>
    ELSE (IF src[i] = <<>> THEN <<>>
          ELSE <<[column |-> names[i], values |-> src[i],
                  column_index |-> i, last_detected |-> stamp]>>)
         \o OnFilters(i + 1, names, src, stamp)

\* com_ok = FALSE: a COM call raised, the outer except swallows it and the
\* empty dict built so far is returned
get_current_filters(names, src, stamp, com_ok) ==
    IF com_ok THEN PutAll(<<>>, OnFilters(1, names, src, stamp)) ELSE <<>>

-----------------------------------------------------------------------------
(* Filter Diff Engine, main.py 390-617 *)

FilterEntry(info) ==
    [column |-> info.column, values |-> info.values,
     column_index |-> info.column_index]

\* 413-439: columns of current that are new or whose values differ
RECURSIVE AddedOrModified(_, _)
AddedOrModified(cur, last) ==
    IF cur = <<>> THEN <<>>
    ELSE LET info == Head(cur)
             rest == AddedOrModified(Tail(cur), last)
         IN IF ~Has(last, info.column)
            THEN <<FilterEntry(info)>> \o rest
            ELSE IF info.values # Get(last, info.column).values
            THEN <<FilterEntry(info)>> \o rest
            ELSE rest

\* a removal test that forgets to look at current
RemovedAll(last, cur) == [i \in DOMAIN last |-> FilterEntry(last[i])]

\* 441-458: columns of last that current no longer has
RECURSIVE Removed(_, _)
Removed(last, cur) ==
    IF last = <<>> THEN <<>>
    ELSE LET info == Head(last)
             rest == Removed(Tail(last), cur)
         IN IF ~Has(cur, info.column)
            THEN <<FilterEntry(info)>> \o rest
            ELSE rest

Columns(entries) == [i \in DOMAIN entries |-> entries[i].column]

RemoveTags(entries) == [i \in DOMAIN entries |-> "Remove " \o entries[i].column]

\* 465-528: the row count changed and the filter dicts are equal; walk over
\* the filters that are On, named from the worksheet's header row.
\* acc = [cols, added, known]
RECURSIVE DetectColumns(_, _, _, _)
DetectColumns(i, src, cur, acc) ==
    IF i > NumCols THEN acc
    ELSE IF src[i] = <<>> THEN DetectColumns(i + 1, src, cur, acc)
    ELSE LET col_name == srcHeaders[i]
         IN IF ~Has(cur, col_name) THEN DetectColumns(i + 1, src, cur, acc)
            ELSE LET info == Get(cur, col_name)
                     isNew == ~Has(acc.known, col_name)
                     changed == /\ ~isNew
                                /\ Get(acc.known, col_name).values # info.values
                     acc2 == [cols |-> Append(acc.cols, col_name),
                              added |-> IF isNew \/ changed
                                        THEN Append(acc.added, FilterEntry(info))
                                        ELSE acc.added,
                              known |-> IF isNew \/ changed
                                        THEN Put(acc.known, info)
                                        ELSE acc.known]
                 IN DetectColumns(i + 1, src, cur, acc2)

\* 547-570: the filter dicts differ; add the cached name of every filter
\* that is On and not yet listed
RECURSIVE ActiveColumns(_, _, _, _)
ActiveColumns(i, src, names, cols) ==
    IF i > NumCols THEN cols
    ELSE IF src[i] = <<>> \/ IsIn(names[i], cols)
    THEN ActiveColumns(i + 1, src, names, cols)
    ELSE ActiveColumns(i + 1, src, names, Append(cols, names[i]))

\* a label chosen by the if/elif chain alone
DisplayChainOnly(added_filters, removed_filters, row_count_changed, filter_state_changed, cur) ==
    IF added_filters # <<>> THEN added_filters[1].column
    ELSE IF removed_filters # <<>> THEN "Remove " \o removed_filters[1].column
    ELSE IF row_count_changed /\ ~filter_state_changed THEN "Row Count Change"
    ELSE "Filter Change"

\* 544-584: the display label of the step
DisplayFilterColumn(added_filters, removed_filters, row_count_changed, filter_state_changed, cur) ==
    LET chain == IF added_filters # <<>>
                 THEN added_filters[1].column
                 ELSE IF removed_filters # <<>>
                 THEN "Remove " \o removed_filters[1].column
                 ELSE IF row_count_changed /\ ~filter_state_changed
                 THEN "Row Count Change"
                 ELSE "Filter Change"
    IN IF cur = <<>> /\ row_count_changed THEN "No Filters" ELSE chain

\* a gate that lets every candidate through
AlwaysSignificant(added_filters, removed_filters, last_count, current_count, total) ==
    TRUE

\* 611-612: only add events with significant changes;
\* abs(d) > total_rows * 0.001 is exact on the integers as 1000*abs(d) > total_rows
Significant(added_filters, removed_filters, last_count, current_count, total) ==
    \/ added_filters # <<>>
    \/ removed_filters # <<>>
    \/ 1000 * Abs(last_count - current_count) > total

\* 394-617: everything the tick does once a change is seen.
\* src is the worksheet as re-read by lines 470 and 551, com_ok whether those
\* COM reads worked, updated_count the result of line 397.
DiffStep(cur, last, known, names, src, com_ok, reconciled, updated_count, last_count, total, now) ==
    LET row_count_changed == RowCountChanged(reconciled, last_count)
        filter_state_changed == ~DictEq(cur, last)
        count == IF updated_count > 0 THEN updated_count ELSE reconciled
        added1 == IF filter_state_changed THEN AddedOrModified(cur, last) ELSE <<>>
        removed == IF filter_state_changed THEN Removed(last, cur) ELSE <<>>
        cols1 == Columns(added1) \o RemoveTags(removed)
        known1 == IF filter_state_changed THEN cur ELSE known
        rowOnly == row_count_changed /\ ~filter_state_changed
        det == IF rowOnly /\ com_ok
               THEN DetectColumns(1, src, cur,
                                  [cols |-> cols1, added |-> added1, known |-> known1])
               ELSE [cols |-> cols1, added |-> added1, known |-> known1]
        has_active_filter == com_ok /\ \E i \in 1..NumCols : src[i] # <<>>
        cols2 == IF rowOnly /\ det.cols = <<>> /\ (has_active_filter \/ cur # <<>>)
                 THEN KeyList(cur) ELSE det.cols
        cols3 == IF cols2 = <<>> /\ row_count_changed
                 THEN <<"Row Count Change">> ELSE cols2
        cols4 == IF filter_state_changed /\ com_ok
                 THEN ActiveColumns(1, src, names, cols3) ELSE cols3
        event == [timestamp |-> now,
                  action |-> "filter_change",
                  added_filters |-> det.added,
                  removed_filters |-> removed,
                  previous_row_count |-> last_count,
                  current_row_count |-> count,
                  total_rows |-> total,
                  filter_column |-> DisplayFilterColumn(det.added, removed,
                                        row_count_changed, filter_state_changed, cur),
                  filter_columns |-> cols4,
                  active_filters |-> KeyList(cur)]
    IN [changed |-> filter_state_changed \/ row_count_changed,
        event |-> event,
        append |-> Significant(det.added, removed, last_count, count, total),
        known |-> det.known,
        count |-> count]

-----------------------------------------------------------------------------
(* The worksheet and what the measurement methods report about it *)

\* rows that a filter leaves visible in a worksheet with that total
FilteredRows(total) == IF total = 100 THEN 40 ELSE 3997

\* visible row counts of a worksheet with that total
RowVals(total) == {FilteredRows(total), total}

\* criteria a user can set on a column
FilterChoices(i) == IF i = 1 THEN {<<>>, <<"East">>, <<"West">>}
                    ELSE {<<>>, <<"Active">>}

\* get_direct_visible_count, 639-716: the count, a jittered count, or 0
\* when every method inside it failed
DirectReadings == {srcRows, 0, srcRows + JitterTolerance}

\* get_special_cells_count, 718-752
SpecialCellsReadings == {srcRows, 0}

\* get_sampling_count, 754-795: the total when FilterMode is not seen
SamplingReadings == {srcRows, 0, srcTotal}

\* get_primary_key_count, 952-990
PrimaryKeyReadings == {srcTotal, 0}

\* 353-367 and 247-261: what the three methods report in one round
Rounds == DirectReadings \X SpecialCellsReadings \X SamplingReadings

\* a round in which some method is off
OffRound(round) == round # <<srcRows, srcRows, srcRows>>

-----------------------------------------------------------------------------
(* Event Log Store *)

\* a file on disk: "ok" holds a JSON list, "empty" has zero bytes (opened
\* for writing, nothing flushed yet), "corrupt" does not parse, "missing"
File(st, data) == [st |-> st, data |-> data]

\* a cap that keeps the oldest entries
CappedOldest(loaded_history) ==
    IF Len(loaded_history) > max_history_length
    THEN SubSeq(loaded_history, 1, max_history_length)
    ELSE loaded_history

\* 126-132: only the most recent max_history_length entries are kept
Capped(loaded_history) ==
    IF Len(loaded_history) > max_history_length
    THEN SubSeq(loaded_history, Len(loaded_history) - max_history_length + 1,
                Len(loaded_history))
    ELSE loaded_history

\* 119-148: the monitor's load at session start; mem is what filter_history
\* holds when nothing is assigned
MonitorLoad(mem, primary, backup) ==
    IF primary.st = "ok" THEN Capped(primary.data)
    ELSE IF primary.st \in {"missing", "empty"} THEN mem
    ELSE IF backup.st = "ok" THEN backup.data
    ELSE <<>>

\* FilterVisualizer.load_filter_history, 1032-1066
load_filter_history(primary, backup) ==
    IF primary.st = "ok" THEN primary.data
    ELSE IF primary.st \in {"missing", "empty"} THEN <<>>
    ELSE IF backup.st = "ok" THEN backup.data
    ELSE <<>>

\* 161-165: total_rows of the first event that has a positive one
OriginalTotalRows(history) ==
    IF \E i \in DOMAIN history : history[i].total_rows > 0
    THEN history[CHOOSE i \in DOMAIN history :
                    /\ history[i].total_rows > 0
                    /\ \A j \in 1..(i - 1) : history[j].total_rows <= 0].total_rows
    ELSE 0

\* 155-176: no initial event when the history already has a total and the
\* last event left rows visible
ShouldAddInitialState(history) ==
    ~ /\ history # <<>>
      /\ OriginalTotalRows(history) > 0
      /\ history[Len(history)].current_row_count > 0

\* a session that trusts what it measures
MeasuredTotalRows(history, measured) == measured

\* 204-207: the history's total wins over the measured one
SessionTotalRows(history, measured) ==
    IF OriginalTotalRows(history) > 0 THEN OriginalTotalRows(history) ELSE measured

\* 211-221
InitialConnectionEvent(now, total) ==
    [timestamp |-> now,
     action |-> "initial_connection",
     added_filters |-> <<>>,
     removed_filters |-> <<>>,
     previous_row_count |-> total,
     current_row_count |-> total,
     total_rows |-> total,
     filter_column |-> "All Data",
     filter_columns |-> <<>>,
     active_filters |-> <<>>]

\* an initial_state event stamped with a time before the session began
InitialStateEventBackdated(now, state, count, total) ==
    LET added_filters == [i \in DOMAIN state |-> FilterEntry(state[i])]
        filter_columns == Columns(added_filters)
    IN [timestamp |-> 0 - now,
        action |-> "initial_state",
        added_filters |-> added_filters,
        removed_filters |-> <<>>,
        previous_row_count |-> total,
        current_row_count |-> count,
        total_rows |-> total,
        filter_column |-> IF filter_columns # <<>> THEN filter_columns[1]
                          ELSE "Initial State",
        filter_columns |-> filter_columns,
        active_filters |-> KeyList(state)]

\* 292-326
InitialStateEvent(now, state, count, total) ==
    LET added_filters == [i \in DOMAIN state |-> FilterEntry(state[i])]
        filter_columns == Columns(added_filters)
    IN [timestamp |-> now,
        action |-> "initial_state",
        added_filters |-> added_filters,
        removed_filters |-> <<>>,
        previous_row_count |-> total,
        current_row_count |-> count,
        total_rows |-> total,
        filter_column |-> IF filter_columns # <<>> THEN filter_columns[1]
                          ELSE "Initial State",
        filter_columns |-> filter_columns,
        active_filters |-> KeyList(state)]

-----------------------------------------------------------------------------
(* Flow graph, FilterVisualizer.create_sankey_diagram, main.py 1228-1399 *)

\* 1270-1280: the label of a step
StepLabel(event, i) ==
    IF event.filter_column # "" THEN event.filter_column
    ELSE IF event.added_filters # <<>> THEN event.added_filters[1].column
    ELSE IF event.removed_filters # <<>>
    THEN "Remove " \o event.removed_filters[1].column
    ELSE "Step " \o ToString(i)

\* 1253, 1295-1299: the origin and one node per event, in log order; an
\* empty log gives the empty figure
SankeyNodes(history) ==
    IF history = <<>> THEN <<>>
    ELSE <<[name |-> "All Data"]>> \o
         [i \in DOMAIN history |->
             [name |-> StepLabel(history[i], i),
              row_count |-> history[i].current_row_count,
              total |-> history[i].total_rows]]

\* links between event nodes only, the origin left unconnected
SankeyLinksBetweenEvents(history) ==
    [i \in 1..(Len(history) - 1) |->
        [source |-> i,
         target |-> i + 1,
         value |-> IF history[i + 1].current_row_count > 1
                   THEN history[i + 1].current_row_count ELSE 1]]

\* links that carry the row count as it is, zero included
SankeyLinksUnweighted(history) ==
    [i \in DOMAIN history |->
        [source |-> i - 1,
         target |-> i,
         value |-> history[i].current_row_count]]

\* 1311-1316: one link per event, from the node before it; nodes are
\* numbered from 0, the origin
SankeyLinks(history) ==
    [i \in DOMAIN history |->
        [source |-> i - 1,
         target |-> i,
         value |-> IF history[i].current_row_count > 1
                   THEN history[i].current_row_count ELSE 1]]

\* 1247-1250: the total of the first event, 1 when it is not positive
FirstTotalRows(history) ==
    IF history[1].total_rows <= 0 THEN 1 ELSE history[1].total_rows

\* 1304-1311: remaining_pct = current_row_count / total_rows against 0.7
\* and 0.3, in whole numbers
NodeColor(event, total) ==
    IF 10 * event.current_row_count > 7 * total THEN "high"
    ELSE IF 10 * event.current_row_count > 3 * total THEN "medium"
    ELSE "low"

\* 1254, 1304-1311: the colour of the origin and of each event's node
SankeyNodeColors(history) ==
    IF history = <<>> THEN <<>>
    ELSE <<"origin">> \o
         [i \in DOMAIN history |-> NodeColor(history[i], FirstTotalRows(history))]

\* 1317-1318: flow_value = max(1, current_row_count)
FlowValue(event) ==
    IF event.current_row_count > 1 THEN event.current_row_count ELSE 1

\* 1355-1369: reduction = 1.0 - flow_value / prev_count against 0.7, 0.4
\* and 0.1, in whole numbers; grey when prev_count is not positive
LinkColor(event) ==
    LET prev_count == event.previous_row_count
        flow_value == FlowValue(event)
    IN IF prev_count > 0
       THEN IF 10 * flow_value < 3 * prev_count THEN "band1"
            ELSE IF 10 * flow_value < 6 * prev_count THEN "band2"
            ELSE IF 10 * flow_value < 9 * prev_count THEN "band3"
            ELSE "band4"
       ELSE "neutral"

SankeyLinkColors(history) == [i \in DOMAIN history |-> LinkColor(history[i])]

-----------------------------------------------------------------------------
(* Initial state: the application has been opened.  Both constructors     *)
(* have run (14-31, 1018-1030) and delayed_initial_load (1901-1913) has     *)
(* loaded what an earlier run left in filter_data.json                      *)

NoProbe == [op |-> "none"]

\* no event built
NoEvent == [action |-> "none"]

\* what an earlier run on a worksheet of 100 rows left in filter_data.json
EarlierLog == <<InitialConnectionEvent(0, 100)>>

\* the worksheet when the application is opened: unfiltered, or with
\* Region = East already set
NoFilters == [i \in 1..NumCols |-> <<>>]

\* a worksheet of that total without filters
Unfiltered(total) == [total |-> total, rows |-> total, filters |-> NoFilters]

\* a worksheet of that total with Region = East set
FilteredEast(total) ==
    [total |-> total, rows |-> FilteredRows(total),
     filters |-> [NoFilters EXCEPT ![1] = <<"East">>]]

\* how the application is opened: a fresh installation on a filtered
\* worksheet of 100 rows or on an unfiltered one of 4000 rows, or with the
\* log of the earlier run on a worksheet that has grown to 4000 rows
Openings ==
    {[sheet |-> FilteredEast(100), log |-> <<>>],
     [sheet |-> Unfiltered(4000), log |-> <<>>],
     [sheet |-> Unfiltered(4000), log |-> EarlierLog]}

InitWith(world, openings, probes) ==
    /\ clock = 1
    /\ env = world
    /\ visible_rows = <<>>
    /\ filter_event = NoEvent
    /\ probe \in probes
    /\ \E opening \in openings :
          /\ srcTotal = opening.sheet.total
          /\ srcRows = opening.sheet.rows
          /\ srcFilters = opening.sheet.filters
          /\ data_file = File("ok", opening.log)
          /\ vis_filter_history = opening.log
          /\ filter_history = opening.log
          /\ shared = (opening.log # <<>>)
    /\ backup_file = File("missing", <<>>)
    /\ header_names = [i \in 1..NumCols |-> ""]   \* nothing cached yet
    /\ last_known_filters = <<>>
    /\ stop_event = FALSE
    /\ pc = "off"
    /\ ret = "none"
    /\ last_filter_state = <<>>
    /\ last_row_count = 0
    /\ total_rows = 0
    /\ current_filters = <<>>
    /\ current_row_count = 0
    /\ gui_pc = "idle"
    /\ gui_ret = "none"
    /\ monitoring_active = FALSE
    /\ finished = FALSE
    /\ interruption = FALSE
    /\ budget = [session |-> 0, edit |-> 0, second |-> 0, user |-> 0,
                 fault |-> 0, resets |-> 0, savefail |-> 0]

\* the world of the whole program
WholeWorld == [kinds |-> {"edit", "second", "user", "fault"},
               events |-> MaxWorldEvents, sessions |-> MaxSessions, base |-> 0]

\* a quiet world: the worksheet is edited and time passes, nothing fails
\* and the user only starts and stops
QuietWorld == [kinds |-> {"edit", "second"},
               events |-> MaxEdits, sessions |-> MaxSessions, base |-> 0]

\* nothing happens around the program
StillWorld == [kinds |-> {}, events |-> 0, sessions |-> 0, base |-> 0]

Init == InitWith(WholeWorld, Openings, {NoProbe})

\* a fresh installation on an unfiltered worksheet of 100 rows
InitQuiet ==
    InitWith(QuietWorld, {[sheet |-> Unfiltered(100), log |-> <<>>]}, {NoProbe})

srcVars == <<srcFilters, srcRows, srcTotal>>
fileVars == <<data_file, backup_file>>
localVars == <<last_filter_state, last_row_count, total_rows, current_filters,
               current_row_count, visible_rows, filter_event, last_known_filters>>
guiVars == <<gui_pc, gui_ret, monitoring_active, finished, interruption>>

\* the poller may still append: the log is at most MaxLog events longer
\* than the longest log the run could load at its start
LogRoom == Len(filter_history) < env.base + MaxLog

\* events of the world so far
Spent == budget.edit + budget.second + budget.user + budget.fault

\* the world does one more thing of this kind
Spend(kind) ==
    /\ kind \in env.kinds
    /\ Spent < env.events
    /\ budget' = [budget EXCEPT ![kind] = @ + 1]

\* a call that fails or a measurement that is off is an event of the world
Fault(off) == IF off THEN Spend("fault") ELSE UNCHANGED budget

\* open() or json.dump() of save_filter_history raises: a fault, counted
\* among the failed saves as well
SaveFault ==
    /\ "fault" \in env.kinds
    /\ Spent < env.events
    /\ budget' = [budget EXCEPT !.fault = @ + 1, !.savefail = @ + 1]

-----------------------------------------------------------------------------
(* The world outside *)

\* a second passes.  Only the poller reads the clock, at the positions
\* below, so a second that passes anywhere else is the same as one that
\* passes just before the next of these positions.
ClockTick ==
    /\ Spend("second")
    /\ pc \in {"init", "init_state", "diff"}
    /\ clock' = clock + 1
    /\ UNCHANGED <<srcVars, fileVars, filter_history, vis_filter_history, shared,
                   header_names, stop_event, pc, ret, localVars, guiVars, env, probe>>

\* the user sets or clears a filter, or rows appear or disappear.  Only
\* the poller reads the worksheet, at the positions below, so an edit made
\* anywhere else is the same as one made just before the next of these.
SourceChange ==
    /\ Spend("edit")
    /\ pc \in {"init_state", "loop", "diff"}
    /\ \E i \in 1..NumCols : \E v \in FilterChoices(i) :
          srcFilters' = [srcFilters EXCEPT ![i] = v]
    /\ srcRows' \in RowVals(srcTotal)
    /\ <<srcFilters', srcRows'>> # <<srcFilters, srcRows>>
    /\ UNCHANGED <<clock, srcTotal, fileVars, filter_history, vis_filter_history,
                   shared, header_names, stop_event, pc, ret, localVars, guiVars, env, probe>>

-----------------------------------------------------------------------------
(* The poller thread: MonitorThread.run -> start_monitoring ->              *)
(* background_monitoring                                                    *)

\* 797-801, 99-148: clear the stop event, connect (read_all_headers refills
\* the Header Cache from the worksheet) and load the history
PollerConnect ==
    /\ pc = "connect"
    /\ stop_event' = FALSE
    /\ \/ /\ header_names' = [i \in 1..NumCols |-> srcHeaders[i]]
          /\ filter_history' = MonitorLoad(filter_history, data_file, backup_file)
          /\ shared' = IF data_file.st \in {"missing", "empty"} THEN shared ELSE FALSE
          /\ pc' = "init"
          /\ UNCHANGED budget
       \/ \* connect_to_excel failed: return False
          /\ pc' = "returned"
          /\ Spend("fault")
          /\ UNCHANGED <<header_names, filter_history, shared>>
    /\ UNCHANGED <<clock, srcVars, fileVars, vis_filter_history, ret, localVars,
                   guiVars, env, probe>>

\* 150-223: establish total_rows and append the initial_connection event
PollerInit ==
    /\ pc = "init"
    /\ \E measured \in PrimaryKeyReadings :
          /\ Fault(measured # srcTotal)
          /\ total_rows' = SessionTotalRows(filter_history, measured)
    /\ IF ShouldAddInitialState(filter_history)
       THEN /\ LogRoom
            /\ filter_history' =
                  Append(filter_history, InitialConnectionEvent(clock, total_rows'))
            /\ pc' = "save_open"
            /\ ret' = "init_state"
       ELSE /\ pc' = "init_state"
            /\ UNCHANGED <<filter_history, ret>>
    /\ UNCHANGED <<clock, srcVars, fileVars, vis_filter_history, shared,
                   header_names, stop_event, last_filter_state, last_row_count,
                   current_filters, current_row_count, visible_rows,
                   filter_event, last_known_filters, guiVars, env, probe>>

\* 225-333: the first row count and filter state; an initial_state event
\* when filters are already active
PollerInitState ==
    /\ pc = "init_state"
    /\ \E round \in Rounds, com_ok \in BOOLEAN :
          LET count == InitialRowCount(KeepPositive(round), total_rows)
              state == get_current_filters(header_names, srcFilters, 1, com_ok)
          IN /\ Fault(~com_ok \/ OffRound(round))
             /\ last_row_count' = count
             /\ last_filter_state' = state
             /\ last_known_filters' = state
             /\ IF state # <<>> /\ count < total_rows
                THEN /\ LogRoom
                     /\ filter_history' = Append(filter_history,
                           InitialStateEvent(clock, state, count, total_rows))
                     /\ pc' = "save_open"
                     /\ ret' = "loop"
                ELSE /\ pc' = "loop"
                     /\ UNCHANGED <<filter_history, ret>>
    /\ UNCHANGED <<clock, srcVars, fileVars, vis_filter_history, shared,
                   header_names, stop_event, total_rows, current_filters,
                   current_row_count, visible_rows, filter_event, guiVars,
                   env, probe>>

\* 336: the stop signal is seen at the top of the loop; the finally clause
\* saves one last time
PollerStop ==
    /\ pc = "loop"
    /\ stop_event
    /\ pc' = "save_open"
    /\ ret' = "returned"
    /\ UNCHANGED <<clock, srcVars, fileVars, filter_history, vis_filter_history,
                   shared, header_names, stop_event, localVars, guiVars, budget, env, probe>>

\* 338-344: Excel does not answer; sleep, try to reconnect, next tick
PollerExcelLost ==
    /\ pc = "loop"
    /\ Spend("fault")
    /\ ~stop_event
    /\ \/ header_names' = [i \in 1..NumCols |-> srcHeaders[i]]
       \/ UNCHANGED header_names
    /\ last_filter_state' = Aged(last_filter_state)
    /\ last_known_filters' = Aged(last_known_filters)
    /\ UNCHANGED <<clock, srcVars, fileVars, filter_history, vis_filter_history,
                   shared, stop_event, pc, ret, last_row_count, total_rows,
                   current_filters, current_row_count, visible_rows,
                   filter_event, guiVars, env, probe>>

\* 346-388: the snapshot of one tick
PollerRead ==
    /\ pc = "loop"
    /\ ~stop_event
    /\ LogRoom
    /\ \E stamp \in StampsNow(last_filter_state), com_ok \in BOOLEAN,
          round \in Rounds, direct \in DirectReadings :
          /\ KeepPositive(round) # <<>> => direct = srcRows
          /\ Fault(~com_ok \/ OffRound(round) \/ direct # srcRows)
          /\ current_filters' =
                get_current_filters(header_names, srcFilters, stamp, com_ok)
          /\ visible_rows' = KeepPositive(round)
          /\ current_row_count' = TickRowCount(visible_rows', direct)
    /\ filter_event' = NoEvent
    /\ pc' = "diff"
    /\ UNCHANGED <<clock, srcVars, fileVars, filter_history, vis_filter_history,
                   shared, header_names, stop_event, ret, last_filter_state,
                   last_row_count, total_rows, last_known_filters, guiVars, env, probe>>

\* 390-620: compare with the previous tick, build the event, append it when
\* significant, remember the state, sleep
PollerDiff ==
    /\ pc = "diff"
    /\ \E updated_count \in DirectReadings, com_ok \in BOOLEAN :
          LET d == DiffStep(current_filters, last_filter_state, last_known_filters,
                            header_names, srcFilters, com_ok, current_row_count,
                            updated_count, last_row_count, total_rows, clock)
          IN IF d.changed
             THEN /\ Fault(~com_ok \/ updated_count # srcRows)
                  /\ filter_event' = d.event
                  /\ last_filter_state' = Aged(current_filters)
                  /\ last_row_count' = d.count
                  /\ last_known_filters' = Aged(d.known)
                  /\ IF d.append
                     THEN /\ LogRoom
                          /\ filter_history' = Append(filter_history, d.event)
                          /\ pc' = "save_open"
                          /\ ret' = "loop"
                     ELSE /\ pc' = "loop"
                          /\ UNCHANGED <<filter_history, ret>>
             ELSE /\ com_ok
                  /\ updated_count = srcRows
                  /\ UNCHANGED budget
                  /\ last_filter_state' = Aged(last_filter_state)
                  /\ last_known_filters' = Aged(last_known_filters)
                  /\ pc' = "loop"
                  /\ UNCHANGED <<last_row_count, filter_history, ret, filter_event>>
    /\ current_filters' = <<>>
    /\ current_row_count' = 0
    /\ visible_rows' = <<>>
    /\ UNCHANGED <<clock, srcVars, fileVars, vis_filter_history, shared,
                   header_names, stop_event, total_rows, guiVars, env, probe>>

\* save_filter_history, 999-1003: open(data_file, 'w') truncates the file
PollerSaveOpen ==
    /\ pc = "save_open"
    /\ data_file' = File("empty", <<>>)
    /\ pc' = "save_write"
    /\ UNCHANGED <<clock, srcVars, backup_file, filter_history, vis_filter_history,
                   shared, header_names, stop_event, ret, localVars, guiVars, budget, env, probe>>

\* save_filter_history, 1003: json.dump writes the list as it is now
PollerSaveWrite ==
    /\ pc = "save_write"
    /\ data_file' = File("ok", filter_history)
    /\ pc' = ret
    /\ ret' = "none"
    /\ UNCHANGED <<clock, srcVars, backup_file, filter_history, vis_filter_history,
                   shared, header_names, stop_event, localVars, guiVars, budget, env, probe>>

\* save_filter_history, 1004-1014: the primary cannot be written (open or
\* dump raised); the list goes to the backup file
PollerSaveFails ==
    /\ pc \in {"save_open", "save_write"}
    /\ SaveFault
    /\ data_file' = IF pc = "save_write" THEN File("corrupt", <<>>) ELSE data_file
    /\ \/ backup_file' = File("ok", filter_history)
       \/ UNCHANGED backup_file
    /\ pc' = ret
    /\ ret' = "none"
    /\ UNCHANGED <<clock, srcVars, filter_history, vis_filter_history, shared,
                   header_names, stop_event, localVars, guiVars, env, probe>>

\* MonitorThread.run, 1438-1447: background_monitoring has returned; the
\* thread ends once interruption is requested, and QThread emits finished
PollerExit ==
    /\ pc = "returned"
    /\ interruption
    /\ pc' = "off"
    /\ finished' = TRUE
    /\ UNCHANGED <<clock, srcVars, fileVars, filter_history, vis_filter_history,
                   shared, header_names, stop_event, ret, localVars, gui_pc,
                   gui_ret, monitoring_active, interruption, budget, env, probe>>

-----------------------------------------------------------------------------
(* Relabel Propagator *)

\* names a user types into the rename fields
NewNames == {"Area", ""}

ReplaceName(names, original_name, new_name) ==
    [i \in DOMAIN names |-> IF names[i] = original_name THEN new_name ELSE names[i]]

ReplaceColumn(entries, original_name, new_name) ==
    [i \in DOMAIN entries |->
        IF entries[i].column = original_name
        THEN [entries[i] EXCEPT !.column = new_name]
        ELSE entries[i]]

\* a rename that accepts every name
NeverRejected(original_name, new_name) == FALSE

\* 2136-2137 and 2414-2416: "if not original_name or not new_name: return"
RenameRejected(original_name, new_name) == original_name = "" \/ new_name = ""

\* an edit that keeps the old name behind the new one
RenameInEventStacking(event, original_name, new_name) ==
    [event EXCEPT
        !.filter_column = new_name \o " " \o original_name,
        !.filter_columns = ReplaceName(event.filter_columns, original_name, new_name),
        !.added_filters = ReplaceColumn(event.added_filters, original_name, new_name),
        !.removed_filters = ReplaceColumn(event.removed_filters, original_name, new_name)]

\* on_filter_column_edited, 2146-2160: the edit of the target event
RenameInEvent(event, original_name, new_name) ==
    [event EXCEPT
        !.filter_column = new_name,
        !.filter_columns = ReplaceName(event.filter_columns, original_name, new_name),
        !.added_filters = ReplaceColumn(event.added_filters, original_name, new_name),
        !.removed_filters = ReplaceColumn(event.removed_filters, original_name, new_name)]

\* an edit that renames the label and leaves the lists alone
RenameAcrossLabelOnly(event, original_name, new_name) ==
    [event EXCEPT
        !.filter_column = IF event.filter_column = original_name
                          THEN new_name ELSE event.filter_column]

\* rename_filter_column, 2426-2445: the edit of one event of the log
RenameAcross(event, original_name, new_name) ==
    [event EXCEPT
        !.filter_column = IF event.filter_column = original_name
                          THEN new_name ELSE event.filter_column,
        !.filter_columns = ReplaceName(event.filter_columns, original_name, new_name),
        !.added_filters = ReplaceColumn(event.added_filters, original_name, new_name),
        !.removed_filters = ReplaceColumn(event.removed_filters, original_name, new_name)]

\* how often a name stands in a list
RECURSIVE CountNames(_, _)
CountNames(names, original_name) ==
    IF names = <<>> THEN 0
    ELSE (IF Head(names) = original_name THEN 1 ELSE 0)
         + CountNames(Tail(names), original_name)

\* rename_filter_column, 2424-2445: what the edit of the log adds to
\* modified_count, event by event
RECURSIVE modified_count(_, _)
modified_count(history, original_name) ==
    IF history = <<>> THEN 0
    ELSE LET event == Head(history)
         IN (IF event.filter_column = original_name THEN 1 ELSE 0)
            + CountNames(event.filter_columns, original_name)
            + CountNames(Columns(event.added_filters), original_name)
            + CountNames(Columns(event.removed_filters), original_name)
            + modified_count(Tail(history), original_name)

\* 2163-2166 and 2419-2421: the Header Cache follows the rename
RenameHeaders(names, original_name, new_name) ==
    [i \in DOMAIN names |-> IF names[i] = original_name THEN new_name ELSE names[i]]

\* 2174-2177: the first event with the same timestamp is overwritten by a
\* copy of the edited event
ReplaceByTimestamp(history, event) ==
    IF \E i \in DOMAIN history : history[i].timestamp = event.timestamp
    THEN LET k == CHOOSE i \in DOMAIN history :
                     /\ history[i].timestamp = event.timestamp
                     /\ \A j \in 1..(i - 1) : history[j].timestamp # event.timestamp
         IN [history EXCEPT ![k] = event]
    ELSE history

\* update_filter_column_selector, 2245-2284: the names offered for a
\* whole-column rename
LabelsOf(history) ==
    UNION {{history[i].filter_column} \cup Range(history[i].filter_columns) :
              i \in DOMAIN history}

SelectorItems ==
    (Range(header_names) \cup LabelsOf(filter_history) \cup LabelsOf(vis_filter_history))
        \ {"", "All Data", "No Filters", "Initial State", "Row Count Change"}

-----------------------------------------------------------------------------
(* The GUI thread: handlers of FilterTrailApp *)

\* start_monitoring, 1951-2003
GuiStart ==
    /\ gui_pc = "idle"
    /\ budget.session < env.sessions
    /\ budget' = [budget EXCEPT !.session = @ + 1]
    /\ ~monitoring_active
    /\ pc = "off"
    /\ pc' = "connect"
    /\ monitoring_active' = TRUE
    /\ interruption' = FALSE
    /\ UNCHANGED <<clock, srcVars, fileVars, filter_history, vis_filter_history,
                   shared, header_names, stop_event, ret, localVars, gui_pc,
                   gui_ret, finished, env, probe>>

\* stop_monitoring, 2005-2014 -> MonitorThread.stop -> monitor.stop_monitoring,
\* 803-806: set the stop event and save from the GUI thread
GuiStop ==
    /\ gui_pc = "idle"
    /\ monitoring_active
    /\ stop_event' = TRUE
    /\ gui_pc' = "save_open"
    /\ gui_ret' = "stop"
    /\ UNCHANGED <<clock, srcVars, fileVars, filter_history, vis_filter_history,
                   shared, header_names, pc, ret, localVars, monitoring_active,
                   finished, interruption, budget, env, probe>>

\* monitoring_finished, 2460-2523: the thread's finished signal
GuiMonitoringFinished ==
    /\ gui_pc = "idle"
    /\ finished
    /\ finished' = FALSE
    /\ monitoring_active' = FALSE
    /\ gui_pc' = "refresh_load"
    /\ UNCHANGED <<clock, srcVars, fileVars, filter_history, vis_filter_history,
                   shared, header_names, stop_event, pc, ret, localVars, gui_ret,
                   interruption, budget, env, probe>>

\* refresh_visualization, 2562: the Refresh button or the auto-refresh timer
GuiRefresh ==
    /\ gui_pc = "idle"
    /\ Spend("user")
    /\ gui_pc' = "refresh_load"
    /\ UNCHANGED <<clock, srcVars, fileVars, filter_history, vis_filter_history,
                   shared, header_names, stop_event, pc, ret, localVars, gui_ret,
                   monitoring_active, finished, interruption, env, probe>>

\* refresh_visualization, 2571: the visualizer reloads the file
GuiRefreshLoad ==
    /\ gui_pc = "refresh_load"
    /\ vis_filter_history' = load_filter_history(data_file, backup_file)
    /\ shared' = FALSE
    /\ gui_pc' = "refresh_assign"
    /\ UNCHANGED <<clock, srcVars, fileVars, filter_history, header_names,
                   stop_event, pc, ret, localVars, gui_ret, monitoring_active,
                   finished, interruption, budget, env, probe>>

\* refresh_visualization, 2574-2575: the monitor's list is replaced by a
\* shallow copy of the visualizer's
GuiRefreshAssign ==
    /\ gui_pc = "refresh_assign"
    /\ IF vis_filter_history # <<>>
       THEN /\ filter_history' = vis_filter_history
            /\ shared' = TRUE
       ELSE UNCHANGED <<filter_history, shared>>
    /\ gui_pc' = "idle"
    /\ gui_ret' = "none"
    /\ UNCHANGED <<clock, srcVars, fileVars, vis_filter_history, header_names,
                   stop_event, pc, ret, localVars, monitoring_active, finished,
                   interruption, budget, env, probe>>

\* on_filter_column_edited, 2109-2180, up to the save
GuiRenameEvent(event_index, new_name) ==
    /\ gui_pc = "idle"
    /\ LET fromVis == event_index \in DOMAIN vis_filter_history
           fromMon == ~fromVis /\ event_index \in DOMAIN filter_history
           event == IF fromVis THEN vis_filter_history[event_index]
                    ELSE filter_history[event_index]
           original_name == event.filter_column
           edited == RenameInEvent(event, original_name, new_name)
           vis1 == IF fromVis
                   THEN [vis_filter_history EXCEPT ![event_index] = edited]
                   ELSE vis_filter_history
           mon1 == IF fromMon \/ (shared /\ event_index \in DOMAIN filter_history)
                   THEN [filter_history EXCEPT ![event_index] = edited]
                   ELSE filter_history
           mon2 == IF IsIn(edited, vis1) /\ ~IsIn(edited, mon1)
                   THEN ReplaceByTimestamp(mon1, edited)
                   ELSE mon1
       IN IF ~(fromVis \/ fromMon) THEN
              UNCHANGED <<filter_history, vis_filter_history, header_names,
                          gui_pc, gui_ret, budget>>
          ELSE IF RenameRejected(original_name, new_name) THEN
              UNCHANGED <<filter_history, vis_filter_history, header_names,
                          gui_pc, gui_ret, budget>>
          ELSE IF original_name \in ProtectedLabels THEN
              /\ Spend("user")
              /\ gui_pc' = "refresh_load"
              /\ gui_ret' = "rejected"
              /\ UNCHANGED <<filter_history, vis_filter_history, header_names>>
          ELSE
              /\ Spend("user")
              /\ vis_filter_history' = vis1
              /\ filter_history' = mon2
              /\ header_names' = RenameHeaders(header_names, original_name, new_name)
              /\ gui_pc' = "save_open"
              /\ gui_ret' = "sankey_load"
    /\ UNCHANGED <<clock, srcVars, fileVars, shared, stop_event, pc, ret,
                   localVars, monitoring_active, finished, interruption, env, probe>>

\* on_filter_column_edited, 2183-2197 -> refresh_sankey_diagram, 2216: what
\* lines 2183-2190 copy into the visualizer's list is replaced at once by
\* the reload
GuiSankeyLoad ==
    /\ gui_pc = "sankey_load"
    /\ vis_filter_history' = load_filter_history(data_file, backup_file)
    /\ shared' = FALSE
    /\ gui_pc' = "idle"
    /\ gui_ret' = "none"
    /\ UNCHANGED <<clock, srcVars, fileVars, filter_history, header_names,
                   stop_event, pc, ret, localVars, monitoring_active, finished,
                   interruption, budget, env, probe>>

\* rename_filter_column, 2403-2448 (the second definition, which replaces
\* the first), up to the save
GuiRenameColumn(original_name, new_name) ==
    /\ gui_pc = "idle"
    /\ IF RenameRejected(original_name, new_name) THEN
           UNCHANGED <<filter_history, vis_filter_history, header_names,
                       gui_pc, gui_ret, budget>>
       ELSE
           /\ Spend("user")
           /\ header_names' = RenameHeaders(header_names, original_name, new_name)
           /\ filter_history' =
                 [i \in DOMAIN filter_history |->
                     RenameAcross(filter_history[i], original_name, new_name)]
           /\ vis_filter_history' =
                 IF shared
                 THEN [i \in DOMAIN vis_filter_history |->
                          RenameAcross(vis_filter_history[i], original_name, new_name)]
                 ELSE vis_filter_history
           /\ gui_pc' = "save_open"
           /\ gui_ret' = "refresh_load"
    /\ UNCHANGED <<clock, srcVars, fileVars, shared, stop_event, pc, ret,
                   localVars, monitoring_active, finished, interruption, env, probe>>

\* reset_data, 2529-2540: the user confirms; monitoring is stopped first
GuiReset ==
    /\ gui_pc = "idle"
    /\ "user" \in env.kinds
    /\ Spent < env.events
    /\ budget' = [budget EXCEPT !.user = @ + 1, !.resets = @ + 1]
    /\ IF monitoring_active
       THEN /\ stop_event' = TRUE
            /\ gui_pc' = "save_open"
            /\ gui_ret' = "reset"
       ELSE /\ gui_pc' = "reset_write"
            /\ gui_ret' = "reset"
            /\ UNCHANGED stop_event
    /\ UNCHANGED <<clock, srcVars, fileVars, filter_history, vis_filter_history,
                   shared, header_names, pc, ret, localVars, monitoring_active,
                   finished, interruption, env, probe>>

\* reset_data, 2543-2556: "[]" into the data file and, if it exists, into
\* the backup file; then refresh
GuiResetWrite ==
    /\ gui_pc = "reset_write"
    /\ data_file' = File("ok", <<>>)
    /\ backup_file' = IF backup_file.st = "missing" THEN backup_file
                      ELSE File("ok", <<>>)
    /\ gui_pc' = "refresh_load"
    /\ UNCHANGED <<clock, srcVars, filter_history, vis_filter_history, shared,
                   header_names, stop_event, pc, ret, localVars, gui_ret,
                   monitoring_active, finished, interruption, budget, env, probe>>

\* where the handler goes on when save_filter_history returns.  After the
\* save of monitor.stop_monitoring, MonitorThread.stop (1457-1458) requests
\* the interruption and waits at most two seconds; stop_monitoring returns
\* to the event loop and reset_data goes on to write the files.
AfterSave(r) == IF r = "stop" THEN "idle"
                ELSE IF r = "reset" THEN "reset_write"
                ELSE r

\* the handler that is still running when save_filter_history returns:
\* reset_data goes on until its refresh is done
StillIn(r) == IF r = "reset" THEN "reset" ELSE "none"

\* save_filter_history called from the GUI thread, 999-1003: open truncates
GuiSaveOpen ==
    /\ gui_pc = "save_open"
    /\ data_file' = File("empty", <<>>)
    /\ gui_pc' = "save_write"
    /\ UNCHANGED <<clock, srcVars, backup_file, filter_history, vis_filter_history,
                   shared, header_names, stop_event, pc, ret, localVars, gui_ret,
                   monitoring_active, finished, interruption, budget, env, probe>>

\* save_filter_history called from the GUI thread, 1003: json.dump
GuiSaveWrite ==
    /\ gui_pc = "save_write"
    /\ data_file' = File("ok", filter_history)
    /\ gui_pc' = AfterSave(gui_ret)
    /\ gui_ret' = StillIn(gui_ret)
    /\ interruption' = (interruption \/ gui_ret \in {"stop", "reset"})
    /\ UNCHANGED <<clock, srcVars, backup_file, filter_history, vis_filter_history,
                   shared, header_names, stop_event, pc, ret, localVars,
                   monitoring_active, finished, budget, env, probe>>

\* save_filter_history called from the GUI thread, 1004-1014
GuiSaveFails ==
    /\ gui_pc \in {"save_open", "save_write"}
    /\ SaveFault
    /\ data_file' = IF gui_pc = "save_write" THEN File("corrupt", <<>>) ELSE data_file
    /\ \/ backup_file' = File("ok", filter_history)
       \/ UNCHANGED backup_file
    /\ gui_pc' = AfterSave(gui_ret)
    /\ gui_ret' = StillIn(gui_ret)
    /\ interruption' = (interruption \/ gui_ret \in {"stop", "reset"})
    /\ UNCHANGED <<clock, srcVars, filter_history, vis_filter_history, shared,
                   header_names, stop_event, pc, ret, localVars,
                   monitoring_active, finished, env, probe>>

-----------------------------------------------------------------------------
(* The whole program *)

Poller ==
    \/ PollerConnect
    \/ PollerInit
    \/ PollerInitState
    \/ PollerStop
    \/ PollerExcelLost
    \/ PollerRead
    \/ PollerDiff
    \/ PollerSaveOpen
    \/ PollerSaveWrite
    \/ PollerSaveFails
    \/ PollerExit

Gui ==
    \/ GuiStart
    \/ GuiStop
    \/ GuiMonitoringFinished
    \/ GuiRefresh
    \/ GuiRefreshLoad
    \/ GuiRefreshAssign
    \/ \E event_index \in 1..MaxLog, new_name \in NewNames :
          GuiRenameEvent(event_index, new_name)
    \/ GuiSankeyLoad
    \/ \E original_name \in SelectorItems, new_name \in NewNames :
          GuiRenameColumn(original_name, new_name)
    \/ GuiReset
    \/ GuiResetWrite
    \/ GuiSaveOpen
    \/ GuiSaveWrite
    \/ GuiSaveFails

Next == ClockTick \/ SourceChange \/ Poller \/ Gui

Spec == Init /\ [][Next]_vars

-----------------------------------------------------------------------------
(* The program in a quiet world: the poller, and of the GUI only start,     *)
(* stop and what follows them                                               *)

PollerQuiet ==
    \/ PollerConnect
    \/ PollerInit
    \/ PollerInitState
    \/ PollerStop
    \/ PollerRead
    \/ PollerDiff
    \/ PollerSaveOpen
    \/ PollerSaveWrite
    \/ PollerExit

GuiQuiet ==
    \/ GuiStart
    \/ GuiStop
    \/ GuiMonitoringFinished
    \/ GuiRefreshLoad
    \/ GuiRefreshAssign
    \/ GuiSaveOpen
    \/ GuiSaveWrite

NextQuiet == ClockTick \/ SourceChange \/ PollerQuiet \/ GuiQuiet

SpecQuiet == InitQuiet /\ [][NextQuiet]_vars

-----------------------------------------------------------------------------
(* The Row Count Reconciler on its own *)

\* row counts the measurement methods hand in
EstimateVals == {10, 40, 41, 42, 50, 52}

RECURSIVE SeqsUpTo(_, _)
SeqsUpTo(n, vals) ==
    IF n = 0 THEN {<<>>}
    ELSE LET shorter == SeqsUpTo(n - 1, vals)
         IN shorter \cup {Append(q, v) : q \in {r \in shorter : Len(r) = n - 1},
                                          v \in vals}

ReconcileProbes ==
    {[op |-> "reconcile", estimates |-> e, result |-> 0] :
        e \in SeqsUpTo(MaxEstimates, EstimateVals) \ {<<>>}}

InitReconcile ==
    InitWith(StillWorld, {[sheet |-> Unfiltered(100), log |-> <<>>]}, ReconcileProbes)

\* 369-382: the estimates are reconciled
ApplyReconcile ==
    /\ probe.op = "reconcile"
    /\ probe' = [probe EXCEPT !.op = "reconciled",
                              !.result = Reconcile(probe.estimates)]
    /\ UNCHANGED <<clock, srcVars, fileVars, filter_history, vis_filter_history,
                   shared, header_names, stop_event, pc, ret, localVars, guiVars,
                   budget, env>>

NextReconcile == ApplyReconcile

SpecReconcile == InitReconcile /\ [][NextReconcile]_vars

-----------------------------------------------------------------------------
(* Properties of the Event Log Store *)

\* what no rename touches in an event
Core(event) ==
    <<event.timestamp, event.action, event.previous_row_count,
      event.current_row_count, event.total_rows>>

Cores(history) == [i \in DOMAIN history |-> Core(history[i])]

\* a occurs in b as a subsequence
RECURSIVE Embeds(_, _)
Embeds(a, b) ==
    IF a = <<>> THEN TRUE
    ELSE IF b = <<>> THEN FALSE
    ELSE IF Head(a) = Head(b) THEN Embeds(Tail(a), Tail(b))
    ELSE Embeds(a, Tail(b))

\* C1: the event log is append-only.  As long as the user has not reset the
\* data and no call has failed, no step makes the monitor's log shorter,
\* and every event of the log is still in it afterwards, in the same
\* relative order, changed at most in its names.
C1_AppendOnly ==
    [][(budget'.resets = 0 /\ budget'.fault = 0) =>
          /\ Len(filter_history') >= Len(filter_history)
          /\ Embeds(Cores(filter_history), Cores(filter_history'))]_vars

-----------------------------------------------------------------------------
(* Properties of the Filter Diff Engine *)

\* the poller takes the second half of a tick
DiffTaken == pc = "diff" /\ pc' # "diff"

\* the tick built an event
EventBuilt == pc = "diff" /\ filter_event' # filter_event

\* same columns with the same predicate values
SameFilters(a, b) ==
    /\ Keys(a) = Keys(b)
    /\ \A c \in Keys(a) : Get(a, c).values = Get(b, c).values

\* C2: in a tick whose current filter map equals the previous one (same
\* columns, same values) and whose row count, as reconciled and as finally
\* recorded, is within 2 of the previous one, nothing is appended.
C2_QuietTickAppendsNothing ==
    [][(/\ DiffTaken
        /\ SameFilters(current_filters, last_filter_state)
        /\ Abs(current_row_count - last_row_count) <= 2
        /\ Abs(last_row_count' - last_row_count) <= 2)
       => filter_history' = filter_history]_vars

ColumnSet(entries) == {entries[i].column : i \in DOMAIN entries}

\* C3: in every event a tick builds, a column is in added_filters exactly
\* when it is in the current map and either absent from the previous map or
\* there with other values; it is in removed_filters exactly when it is in
\* the previous map and absent from the current one; no column is in both.
C3_Classification ==
    [][EventBuilt =>
          /\ ColumnSet(filter_event'.added_filters) =
                {c \in Keys(current_filters) :
                    \/ c \notin Keys(last_filter_state)
                    \/ Get(current_filters, c).values #
                          Get(last_filter_state, c).values}
          /\ ColumnSet(filter_event'.removed_filters) =
                Keys(last_filter_state) \ Keys(current_filters)
          /\ ColumnSet(filter_event'.added_filters) \cap
                ColumnSet(filter_event'.removed_filters) = {}]_vars

\* C3: a tick has built an event for a column whose values were modified
C3_Witness ==
    /\ filter_event # NoEvent
    /\ filter_event.removed_filters = <<>>
    /\ filter_event.added_filters =
          <<[column |-> "Region", values |-> <<"West">>, column_index |-> 1]>>
    /\ \E i \in DOMAIN filter_history :
          /\ filter_history[i].action = "initial_state"
          /\ filter_history[i].added_filters =
                <<[column |-> "Region", values |-> <<"East">>, column_index |-> 1]>>

\* C4: a tick leaves the log as it is or appends the event it built, and
\* it appends only an event that has added or removed filters or whose row
\* counts differ by more than a thousandth of total_rows.
C4_SignificanceGate ==
    [][DiffTaken =>
          \/ filter_history' = filter_history
          \/ /\ filter_history' = Append(filter_history, filter_event')
             /\ \/ filter_event'.added_filters # <<>>
                \/ filter_event'.removed_filters # <<>>
                \/ 1000 * Abs(filter_event'.previous_row_count -
                              filter_event'.current_row_count)
                      > filter_event'.total_rows]_vars

\* C4: the gate has held back an event whose row count moved by more than 2
C4_Witness ==
    /\ pc = "loop"
    /\ filter_event # NoEvent
    /\ filter_event.added_filters = <<>>
    /\ filter_event.removed_filters = <<>>
    /\ Abs(filter_event.current_row_count - filter_event.previous_row_count) > 2
    /\ ~IsIn(filter_event, filter_history)

\* the label by the five rules in strict priority order
StrictPriorityLabel(event, row_count_changed, filter_state_changed, cur) ==
    IF event.added_filters # <<>> THEN event.added_filters[1].column
    ELSE IF event.removed_filters # <<>>
    THEN "Remove " \o event.removed_filters[1].column
    ELSE IF row_count_changed /\ ~filter_state_changed THEN "Row Count Change"
    ELSE IF cur = <<>> /\ row_count_changed THEN "No Filters"
    ELSE "Filter Change"

\* the label with "No Filters" ahead of the other rules
NoFiltersFirstLabel(event, row_count_changed, filter_state_changed, cur) ==
    IF cur = <<>> /\ row_count_changed THEN "No Filters"
    ELSE IF event.added_filters # <<>> THEN event.added_filters[1].column
    ELSE IF event.removed_filters # <<>>
    THEN "Remove " \o event.removed_filters[1].column
    ELSE IF row_count_changed /\ ~filter_state_changed THEN "Row Count Change"
    ELSE "Filter Change"

-----------------------------------------------------------------------------
(* The end-to-end scenario *)

RegionEast == [column |-> "Region", values |-> <<"East">>, column_index |-> 1]

\* a log of three events: monitoring opened on 100 rows; Region = East was
\* applied, the only filter of the worksheet, and 40 rows stayed; the Region
\* filter was removed, no filter was left, and the 100 rows came back
ScenarioLog(history) ==
    /\ Len(history) = 3
    /\ history[1].action = "initial_connection"
    /\ history[1].total_rows = 100
    /\ history[2].action = "filter_change"
    /\ history[2].previous_row_count = 100
    /\ history[2].current_row_count = 40
    /\ IsIn(RegionEast, history[2].added_filters)
    /\ history[2].active_filters = <<"Region">>
    /\ history[3].action = "filter_change"
    /\ history[3].previous_row_count = 40
    /\ history[3].current_row_count = 100
    /\ "Region" \in ColumnSet(history[3].removed_filters)
    /\ history[3].active_filters = <<>>

\* what the scenario expects of the first two events
ScenarioOpening(history) ==
    /\ history[1].previous_row_count = 100
    /\ history[1].current_row_count = 100
    /\ history[2].filter_column = "Region"
    /\ history[2].added_filters = <<RegionEast>>

\* the flow graph has the origin, three event nodes and three links
ScenarioGraph(history) ==
    /\ Len(SankeyNodes(history)) = 4
    /\ SankeyNodes(history)[1].name = "All Data"
    /\ Len(SankeyLinks(history)) = 3
    /\ \A i \in 1..3 : /\ SankeyLinks(history)[i].source = i - 1
                       /\ SankeyLinks(history)[i].target = i

\* the scenario has been played: the worksheet was edited twice (Region =
\* East applied with 40 rows left, then removed with the 100 rows back,
\* each edit changing the filter and the rows at once) and the visualizer
\* holds the log of it
ScenarioPlayed ==
    /\ budget.edit = 2
    /\ ScenarioLog(vis_filter_history)

-----------------------------------------------------------------------------
(* Invariants of the log *)

\* the logs in memory and on disk
AllLogs == {filter_history, vis_filter_history, data_file.data, backup_file.data}

TotalEstablished(history) ==
    \A i \in DOMAIN history :
       (/\ history[i].total_rows > 0
        /\ \A k \in 1..(i - 1) : history[k].total_rows <= 0)
       => \A j \in (i + 1)..Len(history) :
             history[j].total_rows = history[i].total_rows

\* C8: total_rows is established once: in the monitor's log and in the
\* saved log, every event after the first one with a positive total_rows
\* carries the same total_rows.
C8_TotalEstablishedOnce ==
    /\ TotalEstablished(filter_history)
    /\ TotalEstablished(data_file.data)

\* C8: a session that reloaded the earlier log of a worksheet of 100 rows
\* measures 4000 rows now and has appended an event
C8_Witness ==
    /\ srcTotal = 4000
    /\ budget.fault = 0
    /\ Len(filter_history) >= 2
    /\ filter_history[1] = EarlierLog[1]
    /\ filter_history[Len(filter_history)].action = "filter_change"
    /\ filter_history[Len(filter_history)].total_rows = 100

-----------------------------------------------------------------------------
(* Properties of the Row Count Reconciler *)

\* r is the middle element of the estimates (the upper one of the two when
\* their number is even)
IsMedian(r, estimates) ==
    /\ r \in Range(estimates)
    /\ Cardinality({i \in DOMAIN estimates : estimates[i] < r})
          <= Len(estimates) \div 2
    /\ Cardinality({i \in DOMAIN estimates : estimates[i] > r})
          <= (Len(estimates) - 1) \div 2

IsMinimum(r, estimates) ==
    /\ r \in Range(estimates)
    /\ \A i \in DOMAIN estimates : r <= estimates[i]

\* C9: the reconciled count of a non-empty sequence of estimates is one of
\* them: the median when there are at least 3 and min < 0.8*max, the
\* minimum otherwise; [40,42,41] gives 40 and [10,50,52] gives 50.
C9_Reconciled ==
    probe.op = "reconciled" =>
       LET e == probe.estimates
           r == probe.result
       IN /\ r \in Range(e)
          /\ IF /\ Len(e) >= 3
                /\ \E i, j \in DOMAIN e : 10 * e[i] < 8 * e[j]
             THEN IsMedian(r, e)
             ELSE IsMinimum(r, e)
          /\ e = <<40, 42, 41>> => r = 40
          /\ e = <<10, 50, 52>> => r = 50

\* C9: three estimates that disagree have been reconciled to their median
C9_Witness ==
    /\ probe.op = "reconciled"
    /\ probe.estimates = <<10, 50, 52>>
    /\ probe.result = 50

\* the first half of a tick ended with no estimate
NoEstimates == pc = "loop" /\ pc' = "diff" /\ visible_rows' = <<>>

-----------------------------------------------------------------------------
(* Properties of the measurements of a tick *)

\* C11: when every measurement method reports 0 visible rows in a tick
\* (no estimate is kept), the row count of the tick is 0.
C11_AllZeroIsZero ==
    [][NoEstimates => current_row_count' = 0]_vars

-----------------------------------------------------------------------------
(* The Event Log Store on its own: loading what is on disk, and saving a    *)
(* log and loading it again                                                 *)

\* event i of a log that an earlier run left behind: the connection to a
\* worksheet of 100 rows, then row count changes between 100 and 40
OldEvent(i) ==
    IF i = 1 THEN InitialConnectionEvent(0 - max_history_length, 100)
    ELSE [InitialConnectionEvent(i - 1 - max_history_length, 100) EXCEPT
             !.action = "filter_change",
             !.filter_column = "Row Count Change",
             !.previous_row_count = IF i % 2 = 0 THEN 100 ELSE 40,
             !.current_row_count = IF i % 2 = 0 THEN 40 ELSE 100]

\* a log of n events of an earlier run
OldLog(n) == [i \in 1..n |-> OldEvent(i)]

\* a log one event longer than the monitor keeps when it loads
LongLog == OldLog(max_history_length + 1)

\* logs found in memory or on disk
StoreLogs == {<<>>, EarlierLog, OldLog(2), LongLog}

\* what can be found at the place of a file
FileStates ==
    {File("missing", <<>>), File("empty", <<>>), File("corrupt", <<>>)}
       \cup {File("ok", l) : l \in StoreLogs}

\* the two loaders
Loaders == {"monitor", "visualizer"}

\* what a loader leaves in its filter_history
Loaded(loader, mem, primary, backup) ==
    IF loader = "monitor" THEN MonitorLoad(mem, primary, backup)
    ELSE load_filter_history(primary, backup)

StoreProbes ==
    {[op |-> "load", loader |-> ld, mem |-> m, primary |-> p, backup |-> b,
      result |-> <<>>] :
        ld \in Loaders, m \in StoreLogs, p \in FileStates, b \in FileStates}
    \cup
    {[op |-> "save", loader |-> ld, mem |-> m, primary |-> p, backup |-> b,
      result |-> <<>>] :
        ld \in Loaders, m \in StoreLogs, p \in FileStates,
        b \in {File("missing", <<>>)}}

InitStore ==
    InitWith(StillWorld, {[sheet |-> Unfiltered(100), log |-> <<>>]}, StoreProbes)

\* 119-148 and 1032-1066: a loader reads the files
ApplyLoad ==
    /\ probe.op = "load"
    /\ probe' = [probe EXCEPT
                    !.op = "loaded",
                    !.result = Loaded(probe.loader, probe.mem, probe.primary,
                                      probe.backup)]
    /\ UNCHANGED <<clock, srcVars, fileVars, filter_history, vis_filter_history,
                   shared, header_names, stop_event, pc, ret, localVars, guiVars,
                   budget, env>>

\* 999-1003, then 119-148 or 1032-1066: the log in memory is written over
\* the primary file, and a loader reads it back
ApplySaveLoad ==
    /\ probe.op = "save"
    /\ probe' = [probe EXCEPT
                    !.op = "reloaded",
                    !.primary = File("ok", probe.mem),
                    !.result = Loaded(probe.loader, probe.mem,
                                      File("ok", probe.mem), probe.backup)]
    /\ UNCHANGED <<clock, srcVars, fileVars, filter_history, vis_filter_history,
                   shared, header_names, stop_event, pc, ret, localVars, guiVars,
                   budget, env>>

NextStore == ApplyLoad \/ ApplySaveLoad

SpecStore == InitStore /\ [][NextStore]_vars

\* what load() is said to return: the primary file's sequence (whole, or
\* its most recent part where the loader caps it) when it parses, else the
\* backup file's sequence when it parses, else the empty sequence
SaidToLoad(primary, backup) ==
    IF primary.st = "ok" THEN {primary.data, Capped(primary.data)}
    ELSE IF backup.st = "ok" THEN {backup.data}
    ELSE {<<>>}

\* C12: a load returns the primary file's sequence when it parses; when the
\* primary is missing, empty or does not parse it returns the backup file's
\* sequence if that parses, and the empty sequence only when both fail.
C12_LoadFallsBack ==
    probe.op = "loaded" => probe.result \in SaidToLoad(probe.primary, probe.backup)

\* C13 as stated: a log that is saved and loaded again comes back equal,
\* event for event, whatever its length.
C13_RoundTrip ==
    probe.op = "reloaded" => probe.result = probe.mem

\* the last n elements of s, in order
IsTail(t, s, n) ==
    /\ Len(t) = n
    /\ \A i \in 1..n : t[i] = s[Len(s) - n + i]

\* C13 amended: a log of at most max_history_length events that is saved and
\* loaded again comes back equal; of a longer log the visualizer's load
\* returns all and the monitor's load at session start returns the most
\* recent max_history_length events.
C13_RoundTripUpToCap ==
    probe.op = "reloaded" =>
       IF probe.loader = "visualizer" \/ Len(probe.mem) <= max_history_length
       THEN probe.result = probe.mem
       ELSE IsTail(probe.result, probe.mem, max_history_length)

\* C13: a log longer than the cap was saved and the monitor loaded it back
C13_Witness ==
    /\ probe.op = "reloaded"
    /\ probe.loader = "monitor"
    /\ Len(probe.mem) > max_history_length
    /\ Len(probe.result) = max_history_length

-----------------------------------------------------------------------------
(* The program in a world where calls fail and the user operates the GUI,   *)
(* on a worksheet that nobody edits                                         *)

\* faults and user operations besides start and stop in one run
MaxMishaps == 2

FaultyWorld == [kinds |-> {"user", "fault"},
                events |-> MaxMishaps, sessions |-> MaxSessions, base |-> 0]

\* a fresh installation on a worksheet of 100 rows filtered on Region
InitFaulty ==
    InitWith(FaultyWorld, {[sheet |-> FilteredEast(100), log |-> <<>>]}, {NoProbe})

NextFaulty == Poller \/ Gui

SpecFaulty == InitFaulty /\ [][NextFaulty]_vars

\* the poller appends an event and goes on to save
AppendTaken == pc \in {"init", "init_state", "diff"} /\ pc' = "save_open"

\* the events of the monitor's log that neither file holds
Unpersisted ==
    {c \in Range(Cores(filter_history)) :
        /\ ~(data_file.st = "ok" /\ c \in Range(Cores(data_file.data)))
        /\ ~(backup_file.st = "ok" /\ c \in Range(Cores(backup_file.data)))}

\* a save has failed and the poller is not saving: an event that neither
\* file holds is one whose save to both files failed
SaveHasFailed ==
    /\ budget.savefail > 0
    /\ pc \notin {"save_open", "save_write"}

\* C14: every append makes the log in memory exactly one event longer, and
\* an event whose save to the primary and to the backup file failed stays
\* in memory (so that the next successful save writes it), unless the user
\* resets the data.
C14_KeptUntilSaved ==
    [][/\ AppendTaken =>
             /\ Len(filter_history') = Len(filter_history) + 1
             /\ SubSeq(filter_history', 1, Len(filter_history)) = filter_history
       /\ (SaveHasFailed /\ budget'.resets = 0) =>
             Unpersisted \subseteq Range(Cores(filter_history'))]_vars

-----------------------------------------------------------------------------
(* Properties of reset_data *)

\* reset_data returns: its refresh is done
ResetReturns ==
    /\ gui_ret = "reset"
    /\ gui_pc = "refresh_assign"
    /\ gui_pc' = "idle"

\* C15: when reset_data returns, the log in memory is empty, the primary
\* file holds an empty collection, the backup file holds one if it exists,
\* and a load returns the empty log.
C15_ResetEmpties ==
    [][ResetReturns =>
          /\ filter_history' = <<>>
          /\ vis_filter_history' = <<>>
          /\ data_file' = File("ok", <<>>)
          /\ backup_file' \in {File("ok", <<>>), File("missing", <<>>)}
          /\ load_filter_history(data_file', backup_file') = <<>>]_vars

-----------------------------------------------------------------------------
(* The program on a log that is longer than the monitor loads: the earlier  *)
(* run left max_history_length + 1 events in filter_data.json                *)

LongWorld == [kinds |-> {"edit"}, events |-> MaxEdits,
              sessions |-> MaxSessions, base |-> max_history_length]

InitLong ==
    InitWith(LongWorld, {[sheet |-> Unfiltered(100), log |-> LongLog]}, {NoProbe})

NextLong == SourceChange \/ PollerQuiet \/ GuiQuiet

SpecLong == InitLong /\ [][NextLong]_vars

\* the file holds an event that this run appended (the earlier run's
\* events are older than the start of the clock)
HoldsNewEvent(file) ==
    /\ file.st = "ok"
    /\ \E i \in DOMAIN file.data : file.data[i].timestamp >= 1

\* C16: a file of more than max_history_length events that was loaded, and
\* saved again with a new event appended, still holds every event it held
\* before, as long as the user has not reset the data.
C16_FileKeepsAll ==
    (HoldsNewEvent(data_file) /\ budget.resets = 0) =>
        \A i \in DOMAIN LongLog :
           \E j \in DOMAIN data_file.data :
              Core(data_file.data[j]) = Core(LongLog[i])

-----------------------------------------------------------------------------
(* Properties of the two threads *)

\* the visualizer loads the files (refresh_visualization or
\* refresh_sankey_diagram)
LoadTaken ==
    /\ gui_pc \in {"refresh_load", "sankey_load"}
    /\ gui_pc' # gui_pc

\* the poller is inside background_monitoring
PollerRunning == pc \notin {"off", "returned"}

\* C17: a load that runs while the poller saves finds the primary file
\* complete, with the old or with the new sequence, never empty or
\* partially written (no call has failed).
C17_LoadSeesWholeFile ==
    [][(LoadTaken /\ PollerRunning /\ budget.fault = 0) =>
          /\ data_file.st = "ok"
          /\ vis_filter_history' = data_file.data]_vars

\* a handler of the GUI thread takes a step
GuiStep == gui_pc' # gui_pc

\* the poller is in its monitoring loop, or saving what it appended
PollerMonitoring == pc \in {"loop", "diff", "save_open", "save_write"}

\* C18: while the poller is monitoring, no step of a GUI handler (refresh,
\* rename, the save of stop, reset) changes the monitor's log in memory or
\* writes a log file (no call has failed).
C18_SoleWriter ==
    [][(PollerMonitoring /\ GuiStep /\ budget.fault = 0) =>
          UNCHANGED <<filter_history, data_file, backup_file>>]_vars

\* MonitorThread.stop has run: the stop signal was set, the log saved and
\* the interruption requested
StopRequested == interruption

\* the poller starts a tick: it reads the worksheet
TickStarted == pc = "loop" /\ pc' = "diff"

\* C19: once the stop signal has been set, the poller starts no new tick:
\* it completes the tick in flight, saves one last time and returns (all
\* calls return, none fails).
C19_NoTickAfterStop ==
    [][(StopRequested /\ budget'.fault = 0) => ~TickStarted]_vars

-----------------------------------------------------------------------------
(* A tick whose snapshot failed *)

\* the tick in flight read no filter although the worksheet, never edited,
\* has one: the read of the filters failed
FiltersReadFailed ==
    /\ pc = "diff"
    /\ budget.edit = 0
    /\ budget.fault > 0
    /\ current_filters = <<>>
    /\ \E i \in 1..NumCols : srcFilters[i] # <<>>

\* the poller finishes the comparison of the tick in flight
TickCompared == pc = "diff" /\ pc' # "diff"

\* C20: a tick in which a Snapshot Source call failed is treated as having
\* no data: no event is appended, the last-known filter state and row count
\* stay as they were, and the poller goes on to the next tick.
C20_FailedTickIsNoData ==
    [][(FiltersReadFailed /\ TickCompared)
          => /\ filter_history' = filter_history
             /\ Keys(last_filter_state') = Keys(last_filter_state)
             /\ last_row_count' = last_row_count
             /\ pc' = "loop"]_vars

-----------------------------------------------------------------------------
(* Order of the log *)

\* timestamps never decrease along the log
Chronological(history) ==
    \A i \in DOMAIN history : \A j \in DOMAIN history :
        i <= j => history[i].timestamp <= history[j].timestamp

\* a file that can be read holds a chronological log
ChronologicalFile(file) == file.st = "ok" => Chronological(file.data)

\* C21: in every reachable log, in memory or on disk, timestamps are
\* non-decreasing in log order, across stop and restart of monitoring and
\* after loads that fall back to the backup file.
C21_Chronological ==
    /\ Chronological(filter_history)
    /\ Chronological(vis_filter_history)
    /\ ChronologicalFile(data_file)
    /\ ChronologicalFile(backup_file)

\* monitoring is started once more than in the whole program, seconds pass
\* and calls fail
RestartWorld == [kinds |-> {"second", "fault"},
                 events |-> MaxMishaps, sessions |-> MaxSessions + 1, base |-> 0]

\* a fresh installation on a worksheet of 100 rows with Region = East set
InitRestart ==
    InitWith(RestartWorld, {[sheet |-> FilteredEast(100), log |-> <<>>]}, {NoProbe})

NextRestart == ClockTick \/ Poller \/ GuiQuiet

SpecRestart == InitRestart /\ [][NextRestart]_vars

\* monitoring was restarted, its load fell back to the backup file, and a
\* later event was appended to what it loaded
C21_Witness ==
    /\ budget.session = 2
    /\ pc = "save_open"
    /\ data_file.st = "corrupt"
    /\ backup_file.st = "ok"
    /\ backup_file.data # <<>>
    /\ Len(filter_history) = Len(backup_file.data) + 1
    /\ SubSeq(filter_history, 1, Len(backup_file.data)) = backup_file.data
    /\ filter_history[1].timestamp < filter_history[Len(filter_history)].timestamp

-----------------------------------------------------------------------------
(* The views on their own: the visualizer holds a log and builds the flow   *)
(* graph from it                                                            *)

\* longest log handed to the views
MaxViewLog == 2

\* row counts of an event: nothing visible, one row, few, some, most, all
ViewCounts == {0, 1, 3, 40, 80, 100}

\* totals of an event: not established, or a worksheet of 100 rows
ViewTotals == {0, 100}

\* an event as the poller writes it when only the row count changed
GraphEvent(current, previous, total) ==
    [InitialConnectionEvent(0, total) EXCEPT
        !.action = "filter_change",
        !.filter_column = "Row Count Change",
        !.previous_row_count = previous,
        !.current_row_count = current]

GraphEvents ==
    {GraphEvent(c, p, t) : c \in ViewCounts, p \in ViewCounts, t \in ViewTotals}

GraphLogs == SeqsUpTo(MaxViewLog, GraphEvents)

GraphProbes ==
    {[op |-> "graph", log |-> l, nodes |-> <<>>, node_colors |-> <<>>,
      links |-> <<>>, link_colors |-> <<>>] : l \in GraphLogs}

InitGraph ==
    InitWith(StillWorld, {[sheet |-> Unfiltered(100), log |-> <<>>]}, GraphProbes)

\* create_sankey_diagram, 1228-1399
ApplyGraph ==
    /\ probe.op = "graph"
    /\ probe' = [probe EXCEPT
                    !.op = "drawn",
                    !.nodes = SankeyNodes(probe.log),
                    !.node_colors = SankeyNodeColors(probe.log),
                    !.links = SankeyLinks(probe.log),
                    !.link_colors = SankeyLinkColors(probe.log)]
    /\ UNCHANGED <<clock, srcVars, fileVars, filter_history, vis_filter_history,
                   shared, header_names, stop_event, pc, ret, localVars, guiVars,
                   budget, env>>

NextGraph == ApplyGraph

SpecGraph == InitGraph /\ [][NextGraph]_vars

\* n + 1 nodes with the origin first, and n links, the link of event i
\* going from node i - 1 to node i with value max(1, current_row_count)
GraphOf(log, nodes, links) ==
    /\ Len(nodes) = Len(log) + 1
    /\ nodes[1].name = "All Data"
    /\ Len(links) = Len(log)
    /\ \A i \in DOMAIN log :
          /\ links[i].source = i - 1
          /\ links[i].target = i
          /\ links[i].value = MaxOf(<<1, log[i].current_row_count>>)
          /\ links[i].value >= 1

\* C22: for any log of n events the flow graph has n + 1 nodes, node 0
\* being the "All Data" origin, and n links; the link of event i goes from
\* node i - 1 to node i with value max(1, current_row_count), at least 1.
C22_GraphShape ==
    probe.op = "drawn" => GraphOf(probe.log, probe.nodes, probe.links)

\* C22 amended: the same for any log that is not empty; the empty log
\* gives a figure without nodes and links.
C22_GraphShapeNonEmpty ==
    probe.op = "drawn" =>
       IF probe.log = <<>>
       THEN probe.nodes = <<>> /\ probe.links = <<>>
       ELSE GraphOf(probe.log, probe.nodes, probe.links)

\* C22: a graph was drawn from a log of two events, one of which shows no
\* row
C22_Witness ==
    /\ probe.op = "drawn"
    /\ Len(probe.log) = 2
    /\ probe.log[2].current_row_count = 0
    /\ probe.links[2].value = 1
    /\ Len(probe.nodes) = 3

\* the band of reduction = 1 - current_row_count / previous_row_count:
\* above 0.7, above 0.4, above 0.1, else; neutral without a previous count
SaidLinkColor(event) ==
    LET prev == event.previous_row_count
        kept == event.current_row_count
    IN IF prev = 0 THEN "neutral"
       ELSE IF 10 * kept < 3 * prev THEN "band1"
       ELSE IF 10 * kept < 6 * prev THEN "band2"
       ELSE IF 10 * kept < 9 * prev THEN "band3"
       ELSE "band4"

\* C23: each link is coloured by reduction = 1 - current_row_count /
\* previous_row_count of its event: band 1 above 0.7, band 2 above 0.4,
\* band 3 above 0.1, band 4 otherwise, neutral when previous_row_count is
\* 0; for every event, those with current_row_count = 0 included.
C23_LinkBands ==
    probe.op = "drawn" =>
       \A i \in DOMAIN probe.log :
          probe.link_colors[i] = SaidLinkColor(probe.log[i])

\* the band of current_row_count / total_rows of the event itself: above
\* 0.7, above 0.3, else
SaidNodeColor(event) ==
    IF 10 * event.current_row_count > 7 * event.total_rows THEN "high"
    ELSE IF 10 * event.current_row_count > 3 * event.total_rows THEN "medium"
    ELSE "low"

\* C24: the node of each event is coloured by that event's
\* current_row_count / total_rows: "high" above 0.7, "medium" above 0.3,
\* "low" otherwise, for every event of every log (of those whose total_rows
\* is positive, the ratio of the others being undefined).
C24_NodeBands ==
    probe.op = "drawn" =>
       \A i \in DOMAIN probe.log :
          probe.log[i].total_rows > 0
             => probe.node_colors[i + 1] = SaidNodeColor(probe.log[i])

-----------------------------------------------------------------------------
(* Table, FilterVisualizer.create_filter_table, main.py 1068-1149 *)

\* ", ".join(vals)
RECURSIVE JoinComma(_)
JoinComma(vals) ==
    IF vals = <<>> THEN ""
    ELSE IF Len(vals) = 1 THEN vals[1]
    ELSE vals[1] \o ", " \o JoinComma(Tail(vals))

\* the column names of the worksheet and of renames, as sorted() orders them
ColumnOrder == <<"Area", "City", "Region">>

\* 1079-1091: the columns that any event adds or removes, sorted
AllColumns(history) ==
    SelectSeq(ColumnOrder,
              LAMBDA col : \E i \in DOMAIN history :
                  \/ \E j \in DOMAIN history[i].added_filters :
                        history[i].added_filters[j].column = col
                  \/ \E j \in DOMAIN history[i].removed_filters :
                        history[i].removed_filters[j].column = col)

\* a removal that deletes nothing
DelNone(m, removed_filters) == m

\* 1131-1135: del active_filters[col] for every removed column
DelAll(m, removed_filters) ==
    SelectSeq(m, LAMBDA info :
                 \A j \in DOMAIN removed_filters :
                    removed_filters[j].column # info.column)

\* 1121-1135: active_filters after the first k events
RECURSIVE ActiveFilters(_, _)
ActiveFilters(history, k) ==
    IF k = 0 THEN <<>>
    ELSE DelAll(PutAll(ActiveFilters(history, k - 1), history[k].added_filters),
                history[k].removed_filters)

\* 1137-1143: the cell of a column in the row of event k
Cell(history, k, col) ==
    LET active_filters == ActiveFilters(history, k)
    IN IF Has(active_filters, col)
       THEN JoinComma(Get(active_filters, col).values)
       ELSE ""

\* 1116: event.get('total_rows', 1) returns the 0 an event carries, and
\* the division by it raises ZeroDivisionError
ZeroDivision(event) == event.total_rows = 0

\* 1116: f"{current_row_count / total_rows * 100:.1f}%", in tenths of a
\* percent to the nearest tenth
PercentOfTotal(event) ==
    (2000 * event.current_row_count + event.total_rows) \div (2 * event.total_rows)

\* 1074-1075, 1097-1145: no table for the empty log, else one row per
\* event; the exception of a row leaves the function before any table is
\* made
create_filter_table(history) ==
    IF \E k \in DOMAIN history : ZeroDivision(history[k])
    THEN [error |-> "ZeroDivisionError", columns |-> <<>>, rows |-> <<>>]
    ELSE [error |-> "",
          columns |-> AllColumns(history),
          rows |-> [k \in DOMAIN history |->
                      [Index |-> k - 1,
                       Step |-> StepLabel(history[k], k),
                       Rows |-> history[k].current_row_count,
                       Percent |-> PercentOfTotal(history[k]),
                       cells |-> [c \in DOMAIN AllColumns(history) |->
                                     Cell(history, k, AllColumns(history)[c])]]]]

-----------------------------------------------------------------------------
(* The table on its own *)

\* what one step adds
TableAdded ==
    {<<>>,
     <<[column |-> "Region", values |-> <<"East">>, column_index |-> 1]>>,
     <<[column |-> "Region", values |-> <<"West">>, column_index |-> 1]>>,
     <<[column |-> "Area", values |-> <<"East">>, column_index |-> 1]>>,
     <<[column |-> "City", values |-> <<"Oslo", "Rome">>, column_index |-> 2]>>,
     <<[column |-> "Region", values |-> <<"East">>, column_index |-> 1],
       [column |-> "City", values |-> <<"Oslo">>, column_index |-> 2]>>}

\* what one step removes
TableRemoved ==
    {<<>>,
     <<[column |-> "Region", values |-> <<"East">>, column_index |-> 1]>>,
     <<[column |-> "City", values |-> <<"Oslo">>, column_index |-> 2]>>}

\* a filter_change event with these entries
TableEvent(added, removed) ==
    [InitialConnectionEvent(0, 100) EXCEPT
        !.action = "filter_change",
        !.added_filters = added,
        !.removed_filters = removed,
        !.current_row_count = 40,
        !.filter_column = IF added # <<>> THEN added[Len(added)].column
                          ELSE IF removed # <<>>
                          THEN "Remove " \o removed[Len(removed)].column
                          ELSE "Row Count Change",
        !.filter_columns = Columns(added) \o RemoveTags(removed)]

TableEvents == {TableEvent(a, r) : a \in TableAdded, r \in TableRemoved}

TableLogs == SeqsUpTo(MaxViewLog, TableEvents)

TableProbes ==
    {[op |-> "table", log |-> l, table |-> [columns |-> <<>>, rows |-> <<>>]] :
        l \in TableLogs}

InitTable ==
    InitWith(StillWorld, {[sheet |-> Unfiltered(100), log |-> <<>>]}, TableProbes)

ApplyTable ==
    /\ probe.op = "table"
    /\ probe' = [probe EXCEPT !.op = "tabled",
                              !.table = create_filter_table(probe.log)]
    /\ UNCHANGED <<clock, srcVars, fileVars, filter_history, vis_filter_history,
                   shared, header_names, stop_event, pc, ret, localVars, guiVars,
                   budget, env>>

NextTable == ApplyTable

SpecTable == InitTable /\ [][NextTable]_vars

\* the columns named in the entries
NamedIn(entries) == {entries[j].column : j \in DOMAIN entries}

\* the events up to k that add or remove the column
Touching(log, k, col) ==
    {j \in 1..k : col \in NamedIn(log[j].added_filters)
                          \cup NamedIn(log[j].removed_filters)}

\* the values the replay of events 1..k leaves for the column: those of
\* the last event that touches it, nothing if that event removes it or no
\* event touches it
Replayed(log, k, col) ==
    IF Touching(log, k, col) = {} THEN <<>>
    ELSE LET j == CHOOSE t \in Touching(log, k, col) :
                     \A u \in Touching(log, k, col) : u <= t
             adds == {a \in DOMAIN log[j].added_filters :
                         log[j].added_filters[a].column = col}
         IN IF col \in NamedIn(log[j].removed_filters) \/ adds = {} THEN <<>>
            ELSE log[j].added_filters[CHOOSE a \in adds :
                                         \A b \in adds : b <= a].values

\* where a name stands in sorted order
Rank(col) == CHOOSE r \in DOMAIN ColumnOrder : ColumnOrder[r] = col

-----------------------------------------------------------------------------
(* Renames in a world where nothing fails: the user starts and stops       *)
(* monitoring more than once and uses the rename fields, the Refresh and    *)
(* the Reset buttons                                                        *)

\* user operations besides start and stop in such a run
MaxRenames == 2

RelabelWorld == [kinds |-> {"user"},
                 events |-> MaxRenames, sessions |-> MaxSessions + 1, base |-> 0]

InitRelabel ==
    InitWith(RelabelWorld, {[sheet |-> FilteredEast(100), log |-> <<>>]}, {NoProbe})

\* the handlers of the GUI thread when every save goes through
GuiCalm ==
    \/ GuiStart
    \/ GuiStop
    \/ GuiMonitoringFinished
    \/ GuiRefresh
    \/ GuiRefreshLoad
    \/ GuiRefreshAssign
    \/ \E event_index \in 1..MaxLog, new_name \in NewNames :
          GuiRenameEvent(event_index, new_name)
    \/ GuiSankeyLoad
    \/ \E original_name \in SelectorItems, new_name \in NewNames :
          GuiRenameColumn(original_name, new_name)
    \/ GuiReset
    \/ GuiResetWrite
    \/ GuiSaveOpen
    \/ GuiSaveWrite

NextRelabel == PollerQuiet \/ GuiCalm

SpecRelabel == InitRelabel /\ [][NextRelabel]_vars

\* on_filter_column_edited has accepted a rename and goes on to save
RenameAccepted ==
    /\ gui_pc = "idle"
    /\ gui_pc' = "save_open"
    /\ gui_ret' = "sankey_load"

\* the save of an accepted single-event rename is done
RenameSaved ==
    /\ gui_pc = "save_write"
    /\ gui_ret = "sankey_load"
    /\ gui_pc' = "sankey_load"

\* the event the table shows at this index
Shown(event_index) ==
    IF event_index \in DOMAIN vis_filter_history
    THEN vis_filter_history[event_index]
    ELSE filter_history[event_index]

\* C26: a successful single-event rename sets the event's filter_column to
\* the new name, replaces the original name in the event's filter_columns
\* and in the column fields of its added_filters and removed_filters,
\* replaces every Header Cache value equal to the original name, and
\* leaves the log file equal to the renamed log in memory.
C26_RenameOneEvent ==
    [][/\ RenameAccepted =>
             \E event_index \in DOMAIN filter_history :
                LET original_name == Shown(event_index).filter_column
                IN /\ filter_history' =
                         [filter_history EXCEPT ![event_index] =
                             RenameInEvent(filter_history[event_index],
                                           original_name, "Area")]
                   /\ header_names' =
                         ReplaceName(header_names, original_name, "Area")
       /\ RenameSaved => data_file' = File("ok", filter_history')]_vars

\* a step of the GUI thread inside a rename that was rejected for its
\* protected label: the rejection itself and the refresh that follows it
RejectedRenameStep ==
    /\ GuiStep
    /\ gui_ret = "rejected" \/ gui_ret' = "rejected"

\* C27: an invalid rename is rejected with the log, the Header Cache and
\* the log file left unchanged: a single-event rename of an event labelled
\* "All Data" or "Initial State", an empty new name, an event index
\* outside the log.
C27_RejectedChangesNothing ==
    [][(RejectedRenameStep /\ budget.fault = 0)
          => UNCHANGED <<filter_history, header_names, data_file, backup_file>>]_vars

-----------------------------------------------------------------------------
(* The same rename again: after any run of the program the user edits the  *)
(* name of one step of the table to one new name, and then once more        *)

\* the step edited and the name typed
RenameProbes ==
    {[op |-> "rename", event_index |-> k, new_name |-> "Area"] : k \in 1..MaxLog}

InitAgain ==
    InitWith(RelabelWorld, {[sheet |-> FilteredEast(100), log |-> <<>>]}, RenameProbes)

\* the applications follow each other: from the first one on, nothing runs
\* but the rename handler and what it calls
NextAgain ==
    \/ budget.user = 0 /\ (PollerQuiet \/ GuiQuiet)
    \/ budget.user >= 1 /\ (GuiSaveOpen \/ GuiSaveWrite \/ GuiRefreshLoad
                                 \/ GuiRefreshAssign)
    \/ GuiRenameEvent(probe.event_index, probe.new_name)
    \/ GuiSankeyLoad

SpecAgain == InitAgain /\ [][NextAgain]_vars

\* a step of the GUI thread inside the second accepted application of the
\* rename
SecondRenameStep ==
    /\ GuiStep
    /\ budget'.user = 2
    /\ gui_ret = "sankey_load" \/ gui_ret' = "sankey_load"

\* C28: applying the same single-event rename (same event index, same new
\* name) a second time leaves the log and the Header Cache as the first
\* application left them, and the file equal to that log once it is saved.
C28_RenameAgain ==
    [][SecondRenameStep =>
          /\ UNCHANGED <<filter_history, header_names>>
          /\ gui_pc' = "sankey_load" => data_file' = File("ok", filter_history')]_vars

\* C28: the rename has been applied a second time and saved, and the step
\* carries the new name in the log and in the file
C28_Witness ==
    /\ probe.op = "rename"
    /\ budget.user = 2
    /\ gui_pc = "sankey_load"
    /\ probe.event_index \in DOMAIN filter_history
    /\ filter_history[probe.event_index].filter_column = "Area"
    /\ "Area" \in Range(header_names)
    /\ data_file = File("ok", filter_history)

-----------------------------------------------------------------------------
(* The whole-column rename on its own: rename_filter_column, main.py        *)
(* 2403-2458, on a log and a Header Cache, with the count it reports        *)

\* the Header Cache when the rename is asked for: as read from the
\* worksheet, or with the first column renamed before
ColumnHeaders == {[i \in 1..NumCols |-> srcHeaders[i]],
                  [i \in 1..NumCols |-> IF i = 1 THEN "Area" ELSE srcHeaders[i]]}

\* names offered by the selector
ColumnOriginals == {"Region", "City", "Area"}

ColumnProbes ==
    {[op |-> "rename_column", log |-> l, header_names |-> h,
      original_name |-> o, new_name |-> "Area",
      result |-> <<>>, headers |-> h, file |-> File("missing", <<>>), count |-> 0] :
        l \in TableLogs, h \in ColumnHeaders, o \in ColumnOriginals}

InitColumn ==
    InitWith(StillWorld, {[sheet |-> Unfiltered(100), log |-> <<>>]}, ColumnProbes)

\* 2403-2458: the Header Cache, the log, the count, the save
ApplyRenameColumn ==
    /\ probe.op = "rename_column"
    /\ ~RenameRejected(probe.original_name, probe.new_name)
    /\ LET renamed == [i \in DOMAIN probe.log |->
                          RenameAcross(probe.log[i], probe.original_name,
                                       probe.new_name)]
       IN probe' = [probe EXCEPT
                       !.op = "renamed_column",
                       !.headers = RenameHeaders(probe.header_names,
                                                 probe.original_name, probe.new_name),
                       !.result = renamed,
                       !.count = modified_count(probe.log, probe.original_name),
                       !.file = File("ok", renamed)]
    /\ UNCHANGED <<clock, srcVars, fileVars, filter_history, vis_filter_history,
                   shared, header_names, stop_event, pc, ret, localVars, guiVars,
                   budget, env>>

NextColumn == ApplyRenameColumn

SpecColumn == InitColumn /\ [][NextColumn]_vars

\* the new name where the original stood, everything else as it was
Swapped(name, original_name, new_name) ==
    IF name = original_name THEN new_name ELSE name

\* the entries with the original name replaced in their column fields
SwappedEntries(entries, after, original_name, new_name) ==
    /\ Len(after) = Len(entries)
    /\ \A j \in DOMAIN entries :
          /\ after[j].column = Swapped(entries[j].column, original_name, new_name)
          /\ after[j].values = entries[j].values
          /\ after[j].column_index = entries[j].column_index

\* the event with the original name replaced wherever the rename looks
SwappedEvent(event, after, original_name, new_name) ==
    /\ after.filter_column = Swapped(event.filter_column, original_name, new_name)
    /\ Len(after.filter_columns) = Len(event.filter_columns)
    /\ \A j \in DOMAIN event.filter_columns :
          after.filter_columns[j] =
             Swapped(event.filter_columns[j], original_name, new_name)
    /\ SwappedEntries(event.added_filters, after.added_filters,
                      original_name, new_name)
    /\ SwappedEntries(event.removed_filters, after.removed_filters,
                      original_name, new_name)
    /\ after.timestamp = event.timestamp
    /\ after.action = event.action
    /\ after.current_row_count = event.current_row_count
    /\ after.previous_row_count = event.previous_row_count
    /\ after.total_rows = event.total_rows

\* occurrences of the name in one event
OccurrencesIn(event, original_name) ==
    (IF event.filter_column = original_name THEN 1 ELSE 0)
    + Cardinality({j \in DOMAIN event.filter_columns :
                      event.filter_columns[j] = original_name})
    + Cardinality({j \in DOMAIN event.added_filters :
                      event.added_filters[j].column = original_name})
    + Cardinality({j \in DOMAIN event.removed_filters :
                      event.removed_filters[j].column = original_name})

RECURSIVE SumUpTo(_, _)
SumUpTo(n, original_name) ==
    IF n = 0 THEN 0
    ELSE OccurrencesIn(probe.log[n], original_name) + SumUpTo(n - 1, original_name)

-----------------------------------------------------------------------------
(* The columns of a step *)

\* the columns an event touches: those it adds or modifies by name, those
\* it removes as "Remove <name>"
Touched(event) ==
    ColumnSet(event.added_filters)
       \cup {"Remove " \o c : c \in ColumnSet(event.removed_filters)}

NoDuplicates(names) ==
    \A i \in DOMAIN names : \A j \in DOMAIN names : names[i] = names[j] => i = j

\* C30: the filter_columns of every filter_change event appended to the log
\* hold exactly the columns touched in that step, each added or modified column by name and
\* each removed column as "Remove <name>", without duplicates and without
\* any column whose filter did not change in that step (the placeholder
\* "Row Count Change" of a step that touches no column set aside).
C30_ColumnsTouched ==
    [][(EventBuilt /\ pc' = "save_open" /\ budget'.fault = 0) =>
          /\ Range(filter_event'.filter_columns) \ {"Row Count Change"}
                = Touched(filter_event')
          /\ NoDuplicates(filter_event'.filter_columns)]_vars

-----------------------------------------------------------------------------
(* Order of the estimates *)

\* how often a value stands in a sequence
Occurs(s, v) == Cardinality({i \in DOMAIN s : s[i] = v})

\* two sequences hold the same values the same number of times
SameMultiset(a, b) ==
    /\ Len(a) = Len(b)
    /\ \A v \in Range(a) \cup Range(b) : Occurs(a, v) = Occurs(b, v)

\* C31: the reconciled row count does not depend on the order of the
\* estimates: every permutation of the estimates that were reconciled
\* reconciles to the same value.
C31_OrderIndependent ==
    probe.op = "reconciled" =>
       \A other \in SeqsUpTo(MaxEstimates, EstimateVals) :
          SameMultiset(other, probe.estimates) => Reconcile(other) = probe.result

\* C31: three disagreeing estimates handed in with the smallest in the
\* middle have been reconciled to the value their sorted order gives
C31_Witness ==
    /\ probe.op = "reconciled"
    /\ probe.estimates = <<50, 10, 52>>
    /\ probe.result = Reconcile(<<10, 50, 52>>)
    /\ probe.result = 50

-----------------------------------------------------------------------------
(* A refresh while the poller is between its append and its save *)

\* the poller has appended an event (613, 222, 329) and has not yet
\* written it: save_filter_history is about to open the file
AppendPending == pc = "save_open" /\ ret \in {"init_state", "loop"}

\* refresh_visualization ends, having loaded the file as it is now
RefreshLands ==
    /\ gui_pc = "refresh_assign"
    /\ gui_pc' = "idle"
    /\ data_file.st = "ok"
    /\ vis_filter_history = data_file.data

\* C32: a refresh that runs between the poller's append and its save loses
\* no event: the event just appended is still in the monitor's log when
\* the refresh ends, so that the save that follows writes it to the file
\* (no call fails, no reset).
C32_RefreshKeepsAppended ==
    [][(RefreshLands /\ AppendPending /\ budget.fault = 0 /\ budget.resets = 0) =>
          /\ Len(filter_history') >= Len(filter_history)
          /\ IsIn(filter_history[Len(filter_history)], filter_history')]_vars

-----------------------------------------------------------------------------
(* After a reset: the program goes on, and nothing is appended any more *)

\* refreshes, renames, saves, stops and restarts after the first reset, and
\* of the poller every step that appends no event
NextCleared ==
    \/ budget.resets = 0 /\ NextRelabel
    \/ budget.resets >= 1 /\ NextRelabel /\ ~AppendTaken

SpecCleared == InitRelabel /\ [][NextCleared]_vars

\* a step of a GUI handler taken after a reset_data has returned and
\* outside a further one
AfterReset ==
    /\ GuiStep
    /\ budget.resets >= 1
    /\ gui_ret # "reset"
    /\ gui_ret' # "reset"

\* C33: after a reset no event of before reappears: as long as nothing is
\* appended, whatever refresh, rename, save or stop follows, a log that is
\* empty (the monitor's, the visualizer's, the file's) stays empty.
C33_NothingReappears ==
    [][AfterReset =>
          /\ filter_history = <<>> => filter_history' = <<>>
          /\ vis_filter_history = <<>> => vis_filter_history' = <<>>
          /\ data_file.data = <<>> => data_file'.data = <<>>]_vars

-----------------------------------------------------------------------------
(* What a single-event rename leaves alone *)

\* the two logs have the same length and differ at most at index k
OnlyChanged(before, after, k) ==
    /\ Len(after) = Len(before)
    /\ \A i \in DOMAIN before : i # k => after[i] = before[i]

\* C34: an accepted single-event rename changes only the target event:
\* when the log file holds the monitor's log as the rename begins (no reset
\* before), then for one index the monitor's log, the visualizer's log and
\* the log that the handler goes on to write to the file keep their length
\* and every event at another index, also when events share a timestamp
\* and when renames follow each other.
C34_RenameTouchesOneEvent ==
    [][(RenameAccepted /\ budget.resets = 0 /\ data_file = File("ok", filter_history)) =>
          \E k \in 1..(Len(filter_history) + 1) :
             /\ OnlyChanged(filter_history, filter_history', k)
             /\ OnlyChanged(vis_filter_history, vis_filter_history', k)
             /\ OnlyChanged(data_file.data, filter_history', k)]_vars

-----------------------------------------------------------------------------
(* The poller after a rename *)

\* a rename has rewritten the Header Cache since the poller connected
HeadersRenamed == \E i \in 1..NumCols : header_names[i] # srcHeaders[i]

\* C35: a rename creates no event: when the Header Cache has been rewritten
\* by a rename and the worksheet's filters and rows have not changed (no
\* edit, no failing call), a poll tick appends nothing.
C35_RenameCreatesNoEvent ==
    [][(DiffTaken /\ HeadersRenamed /\ budget'.edit = 0 /\ budget'.fault = 0) =>
          filter_history' = filter_history]_vars

-----------------------------------------------------------------------------
(* The chain of row counts *)

\* every event after the first starts from the row count the event before
\* it in the log ended with
ChainContinuous(history) ==
    \A i \in 2..Len(history) :
       history[i].previous_row_count = history[i - 1].current_row_count

\* C36: in every log the poller produces, each event after the first has a
\* previous_row_count equal to the current_row_count of the event before
\* it, also across stop and restart of monitoring (no call fails).
C36_RowCountChain ==
    budget.fault = 0 => ChainContinuous(filter_history)

-----------------------------------------------------------------------------
(* The replay against the worksheet *)

\* the columns the replay of added_filters and removed_filters holds after
\* event k are the columns the event recorded as under a filter
ReplayMatches(history, k) ==
    Keys(ActiveFilters(history, k)) = Range(history[k].active_filters)

\* C37: for every event of a log the poller produced, the columns of the
\* running map replayed from the start of the log up to that event are
\* the columns under a filter in the worksheet right after the event, as
\* recorded in its active_filters (no call fails).
C37_ReplayIsActive ==
    budget.fault = 0 =>
       \A k \in DOMAIN filter_history : ReplayMatches(filter_history, k)

-----------------------------------------------------------------------------
(* The start of a session on a log that already has events *)

\* the poller takes the step that establishes total_rows and decides on
\* the initial_connection event
SessionBegins == pc = "init" /\ pc' # "init"

\* C38: an initial_connection event is appended at the start of a session
\* only when the loaded log is empty: a session that starts on a log with
\* events appends no initial_connection event behind them (every save
\* went through).
C38_InitialConnectionOnlyWhenFresh ==
    [][(SessionBegins /\ filter_history # <<>> /\ budget.savefail = 0) =>
          filter_history' = filter_history]_vars

-----------------------------------------------------------------------------
(* The row count an event records *)

\* the tick appends the event it built
EventAppended == EventBuilt /\ pc' = "save_open"

\* C39: the current_row_count of an appended filter_change event is the
\* reconciled row count of the tick's estimates, the value that was compared
\* with the previous count, and it is the previous count of the next tick
\* (the tick saw the row count change; no call fails, no measurement is
\* off).
C39_RecordsReconciled ==
    [][(/\ EventAppended
        /\ visible_rows # <<>>
        /\ RowCountChanged(current_row_count, last_row_count)
        /\ budget'.fault = 0) =>
          /\ current_row_count = Reconcile(visible_rows)
          /\ filter_event'.current_row_count = current_row_count
          /\ last_row_count' = filter_event'.current_row_count]_vars

-----------------------------------------------------------------------------
(* The table of a log the poller produced *)

\* the table is built, with one row per event
TableBuilt(history) ==
    LET table == create_filter_table(history)
    IN /\ table.error = ""
       /\ Len(table.rows) = Len(history)

\* C40: the table is defined for every log the poller can produce: for the
\* monitor's log and for the log the visualizer shows, building the table
\* gives one row per event and raises no error, also when an event has
\* total_rows = 0.
C40_TableDefined ==
    /\ filter_history # <<>> => TableBuilt(filter_history)
    /\ vis_filter_history # <<>> => TableBuilt(vis_filter_history)

====
